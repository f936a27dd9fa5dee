---------------------------- MODULE DeskProofs ------------------------------
(***************************************************************************)
(* Proofs about the other parts of the desk, laid out as in                *)
(* DeskCountProofs: post slots, profile updates, the tracker, market       *)
(* batches, settings, referral codes, Today; and that every part keeps its *)
(* types.                                                                  *)
(***************************************************************************)
EXTENDS DeskCountProofs, CreditAccountProofs

-----------------------------------------------------------------------------
(* Post slots.  No request is let through on a slot that was published.    *)

\* A step of the desk is a step of the post slots, or leaves their variables alone.
LEMMA PostsStep == [DeskNext]_everything => [Posts!Next]_(Posts!vars)
BY DEF DeskNext, OthersWait, Off, everything, posts, Posts!vars

PRecord == [does : {"nothing", "publish", "skip", "draft"}, day : Day, read : Posts!Slot, reason : BOOLEAN]

\* The types of the post slots, each as one set.
LEMMA PostsTypes ==
    Posts!TypeOK <=>
        pPlanned \subseteq Day /\ pSlot \in [Day -> Posts!Slot] /\ pRequest \in [Req -> PRecord]
BY DEF Posts!TypeOK, PRecord

\* The same, for the next state.
LEMMA PostsTypesNext ==
    pPlanned' \subseteq Day /\ pSlot' \in [Day -> Posts!Slot] /\ pRequest' \in [Req -> PRecord]
    => Posts!TypeOK'
BY DEF Posts!TypeOK, PRecord

\* The values the post slots start from have their types.
LEMMA PostsIdle == Posts!NoSlot \in Posts!Slot /\ Posts!Idle \in PRecord
<1>1. Posts!NoSlot \in Posts!Slot
  BY DEF Posts!NoSlot, Posts!Slot, Posts!State
<1>2. (CHOOSE d \in Day : TRUE) \in Day
  BY DeskAssumption
<1> QED
  BY <1>1, <1>2 DEF Posts!Idle, PRecord

\* What the schedule shows of a slot, and what a request writes of it, are slots.
LEMMA PostsShown ==
    ASSUME Posts!TypeOK, NEW d \in Day
    PROVE  /\ Posts!Shown(d) \in Posts!Slot
           /\ Posts!Shown(d).state = pSlot[d].state /\ Posts!Shown(d).drafts = pSlot[d].drafts
<1>1. pSlot[d] \in Posts!Slot /\ (d \notin pPlanned) \in BOOLEAN
  BY PostsTypes
<1> QED
  BY <1>1 DEF Posts!Shown, Posts!Slot

\* save_slot writes back what it read: drafts that were there are kept.
LEMMA PostsWritten ==
    ASSUME NEW q \in PRecord, q.does # "nothing"
    PROVE  /\ Posts!Written(q) \in Posts!Slot
           /\ q.read.drafts => Posts!Written(q).drafts
BY DEF Posts!Written, PRecord, Posts!Slot, Posts!State, Posts!MarkPublished, Posts!Skip, Posts!Drafted

\* The inductive invariant of the post slots holds at the start.
LEMMA PostsInit == DeskInit => Posts!IndInv
<1> SUFFICES ASSUME Posts!Init PROVE Posts!IndInv
  BY DEF DeskInit
<1>1. Posts!TypeOK
  BY PostsIdle, PostsTypes DEF Posts!Init
<1>2. Posts!UnderWayReadUnpublished
  BY DEF Posts!Init, Posts!UnderWayReadUnpublished
<1> QED
  BY <1>1, <1>2 DEF Posts!IndInv

PostsReads(r, d, does) ==
    /\ pRequest[r] = Posts!Idle
    /\ Posts!Shown(d).state # "published"
    /\ \E reason \in BOOLEAN :
          pRequest' = [pRequest EXCEPT ![r] =
                         [does |-> does, day |-> d, read |-> Posts!Shown(d), reason |-> reason]]
    /\ UNCHANGED <<pPlanned, pSlot>>

\* Each of the three handlers starts by reading the slot.
LEMMA PostsReading ==
    ASSUME NEW r \in Req, NEW d \in Day,
           Posts!ReadToPublish(r, d) \/ Posts!ReadToDraft(r, d)
           \/ \E reason \in BOOLEAN : Posts!ReadToSkip(r, d, reason)
    PROVE  \E does \in {"publish", "skip", "draft"} : PostsReads(r, d, does)
<1>1. CASE Posts!ReadToPublish(r, d)
  <2>1. PostsReads(r, d, "publish")
    BY <1>1 DEF Posts!ReadToPublish, Posts!CanPublish, PostsReads
  <2> QED
    BY <2>1
<1>2. CASE Posts!ReadToDraft(r, d)
  <2>1. PostsReads(r, d, "draft")
    BY <1>2 DEF Posts!ReadToDraft, PostsReads
  <2> QED
    BY <2>1
<1>3. ASSUME NEW reason \in BOOLEAN, Posts!ReadToSkip(r, d, reason)
      PROVE  \E does \in {"publish", "skip", "draft"} : PostsReads(r, d, does)
  <2>1. PostsReads(r, d, "skip")
    BY <1>3 DEF Posts!ReadToSkip, Posts!CanSkip, PostsReads
  <2> QED
    BY <2>1
<1> QED
  BY <1>1, <1>2, <1>3

\* Every step of the post slots preserves the inductive invariant, one step of the proof
\* per action.
LEMMA PostsNext ==
    ASSUME Posts!IndInv, [Posts!Next]_(Posts!vars)
    PROVE  Posts!IndInv'
<1>0. /\ Posts!TypeOK /\ pPlanned \subseteq Day /\ pSlot \in [Day -> Posts!Slot]
      /\ pRequest \in [Req -> PRecord]
  BY PostsTypes DEF Posts!IndInv
<1>1. \A r \in Req : pRequest[r] # Posts!Idle =>
          pRequest[r].does # "nothing" /\ pRequest[r].read.state # "published"
  BY DEF Posts!IndInv, Posts!UnderWayReadUnpublished
<1>2. ASSUME NEW r \in Req, NEW d \in Day, NEW does \in {"publish", "skip", "draft"}, PostsReads(r, d, does)
      PROVE  Posts!IndInv'
  <2> PICK reason \in BOOLEAN :
         pRequest' = [pRequest EXCEPT ![r] =
                        [does |-> does, day |-> d, read |-> Posts!Shown(d), reason |-> reason]]
    BY <1>2 DEF PostsReads
  <2> DEFINE q == [does |-> does, day |-> d, read |-> Posts!Shown(d), reason |-> reason]
  <2>1. q \in PRecord
    BY <1>0, PostsShown DEF PRecord
  <2>2. q.does # "nothing" /\ q.read.state # "published"
    BY <1>2 DEF PostsReads
  <2> HIDE DEF q
  <2>3. pRequest' \in [Req -> PRecord] /\ pRequest'[r] = q /\ \A s \in Req \ {r} : pRequest'[s] = pRequest[s]
    BY <2>1, <1>0 DEF q
  <2>4. Posts!TypeOK'
    BY <1>2, <2>3, <1>0, PostsTypesNext DEF PostsReads
  <2>5. Posts!UnderWayReadUnpublished'
    BY <2>2, <2>3, <1>1 DEF Posts!UnderWayReadUnpublished
  <2> QED
    BY <2>4, <2>5 DEF Posts!IndInv
<1>3. ASSUME NEW r \in Req, Posts!Save(r) \/ Posts!SaveFails(r) PROVE Posts!IndInv'
  <2>1. pRequest[r] # Posts!Idle /\ pRequest' = [pRequest EXCEPT ![r] = Posts!Idle] /\ UNCHANGED pPlanned
    BY <1>3 DEF Posts!Save, Posts!SaveFails
  <2>2. Posts!Written(pRequest[r]) \in Posts!Slot
    BY <1>0, <1>1, <2>1, PostsWritten
  <2>3. pSlot' \in [Day -> Posts!Slot]
    <3>1. CASE Posts!Save(r)
      BY <3>1, <1>0, <2>2 DEF Posts!Save
    <3>2. CASE Posts!SaveFails(r)
      BY <3>2, <1>0 DEF Posts!SaveFails
    <3> QED
      BY <1>3, <3>1, <3>2
  <2>4. pRequest' \in [Req -> PRecord] /\ pRequest'[r] = Posts!Idle /\ \A s \in Req \ {r} : pRequest'[s] = pRequest[s]
    BY <2>1, <1>0, PostsIdle
  <2>5. Posts!TypeOK'
    BY <2>1, <2>3, <2>4, <1>0, PostsTypesNext
  <2>6. Posts!UnderWayReadUnpublished'
    BY <2>4, <1>1 DEF Posts!UnderWayReadUnpublished
  <2> QED
    BY <2>5, <2>6 DEF Posts!IndInv
<1>4. ASSUME Posts!ContractChanges PROVE Posts!IndInv'
  <2>1. pPlanned' \subseteq Day /\ UNCHANGED <<pSlot, pRequest>>
    BY <1>4 DEF Posts!ContractChanges
  <2>2. Posts!TypeOK'
    BY <2>1, <1>0, PostsTypesNext
  <2>3. Posts!UnderWayReadUnpublished'
    BY <2>1, <1>1 DEF Posts!UnderWayReadUnpublished
  <2> QED
    BY <2>2, <2>3 DEF Posts!IndInv
<1>5. CASE UNCHANGED Posts!vars
  <2>1. UNCHANGED <<pPlanned, pSlot, pRequest>>
    BY <1>5 DEF Posts!vars
  <2> QED
    BY <2>1, <1>0, <1>1, PostsTypesNext DEF Posts!IndInv, Posts!UnderWayReadUnpublished
<1>6. CASE Posts!Next
  BY <1>6, <1>2, <1>3, <1>4, PostsReading DEF Posts!Next
<1> QED
  BY <1>5, <1>6

\* A slot loses what was published of it, or its drafts, to a request that had
\* read it before.
LEMMA PostsUndone ==
    ASSUME Posts!IndInv, [Posts!Next]_(Posts!vars), NEW d \in Day,
           \/ pSlot[d].state = "published" /\ pSlot'[d].state # "published"
           \/ pSlot[d].drafts /\ ~pSlot'[d].drafts
    PROVE  \E r \in Req : /\ pRequest[r].day = d /\ pRequest[r] # Posts!Idle /\ pRequest'[r] = Posts!Idle
                          /\ pRequest[r].read.state # pSlot[d].state
                             \/ pRequest[r].read.drafts # pSlot[d].drafts
<1>0. /\ pSlot \in [Day -> Posts!Slot] /\ pRequest \in [Req -> PRecord]
  BY PostsTypes DEF Posts!IndInv
<1>1. pSlot'[d] # pSlot[d]
  OBVIOUS
<1>2. PICK r \in Req : Posts!Save(r)
  <2>1. ASSUME UNCHANGED pSlot PROVE FALSE
    BY <1>1, <2>1
  <2>2. CASE Posts!Next
    BY <2>1, <2>2 DEF Posts!Next, Posts!ReadToPublish, Posts!ReadToDraft, Posts!ReadToSkip,
                      Posts!SaveFails, Posts!ContractChanges
  <2>3. CASE UNCHANGED Posts!vars
    BY <2>1, <2>3 DEF Posts!vars
  <2> QED
    BY <2>2, <2>3
<1>3. /\ pRequest[r] # Posts!Idle /\ pSlot' = [pSlot EXCEPT ![pRequest[r].day] = Posts!Written(pRequest[r])]
      /\ pRequest' = [pRequest EXCEPT ![r] = Posts!Idle]
  BY <1>2 DEF Posts!Save
<1>4. pRequest[r].day = d /\ pRequest'[r] = Posts!Idle
  BY <1>0, <1>1, <1>3
<1>5. pSlot'[d] = Posts!Written(pRequest[r])
  BY <1>0, <1>3, <1>4
<1>6. /\ pRequest[r].read.state # "published"
      /\ pRequest[r].read.drafts => Posts!Written(pRequest[r]).drafts
  BY <1>0, <1>3, PostsWritten DEF Posts!IndInv, Posts!UnderWayReadUnpublished
<1>7. pRequest[r].read.state # pSlot[d].state \/ pRequest[r].read.drafts # pSlot[d].drafts
  BY <1>5, <1>6
<1> QED
  BY <1>3, <1>4, <1>7

\* The inductive invariant of the post slots always holds, whatever handlers run.
THEOREM PostsInductive == DeskSpec => []Posts!IndInv
<1>1. DeskInit => Posts!IndInv
  BY PostsInit
<1>2. Posts!IndInv /\ [DeskNext]_everything => Posts!IndInv'
  BY PostsNext, PostsStep
<1> QED
  BY <1>1, <1>2, PTL DEF DeskSpec

\* Published posts and kept drafts are undone by writes of a stale read only
\* (save_slot writes the whole slot back).
THEOREM WorkIsKept == DeskSpec => WorkIsUndoneByStaleWritesOnly
<1> DEFINE Undone ==
      \A d \in Day :
        \/ pSlot[d].state = "published" /\ pSlot'[d].state # "published"
        \/ pSlot[d].drafts /\ ~pSlot'[d].drafts
        => \E r \in Req : /\ pRequest[r].day = d /\ pRequest[r] # Posts!Idle /\ pRequest'[r] = Posts!Idle
                          /\ pRequest[r].read.state # pSlot[d].state
                             \/ pRequest[r].read.drafts # pSlot[d].drafts
<1>1. Posts!IndInv /\ [DeskNext]_everything => [Undone]_(Posts!vars)
  BY PostsUndone, PostsStep
<1> QED
  BY <1>1, PostsInductive, PTL DEF DeskSpec, WorkIsUndoneByStaleWritesOnly, Posts!WorkIsUndoneByStaleWritesOnly

-----------------------------------------------------------------------------
(* Profile updates.  A proposal never changes once it is recorded: what a  *)
(* request read of it is still what it says.                               *)

\* A step of the desk is a step of the profile updates, or leaves their variables alone.
LEMMA UpdatesStep == [DeskNext]_everything => [Updates!Next]_(Updates!vars)
BY DEF DeskNext, OthersWait, Off, everything, updates, Updates!vars

Agents == Updates!AgentsFor("major")
URow == {[state |-> s, kind |-> k, proposal |-> Updates!Proposal(k)] : s \in Updates!State, k \in Updates!Kind}
URecord == [change : Change, approved : BOOLEAN, busy : BOOLEAN, read : Updates!State, agents : SUBSET Agents]
Answers == {"approved", "declined"}

\* The types of the profile updates, each as one set.
LEMMA UpdatesTypes ==
    Updates!TypeOK <=>
        /\ uRow \in [Change -> URow] /\ uRequest \in [Req -> URecord]
        /\ uTold \in [Change -> SUBSET Answers] /\ uRan \in [Change -> SUBSET Agents]
BY DEF Updates!TypeOK, URow, URecord, Agents, Answers

\* The same, for the next state.
LEMMA UpdatesTypesNext ==
    /\ uRow' \in [Change -> URow] /\ uRequest' \in [Req -> URecord]
    /\ uTold' \in [Change -> SUBSET Answers] /\ uRan' \in [Change -> SUBSET Agents]
    => Updates!TypeOK'
BY DEF Updates!TypeOK, URow, URecord, Agents, Answers

\* The agents of a proposal are agents, and its state is one.
LEMMA UpdatesAgents ==
    ASSUME NEW row \in URow
    PROVE  row.proposal.agents \in SUBSET Agents /\ row.state \in Updates!State
<1>1. PICK s \in Updates!State, k \in Updates!Kind :
        row = [state |-> s, kind |-> k, proposal |-> Updates!Proposal(k)]
  BY DEF URow
<1>2. Updates!AgentsFor(Updates!MagnitudeOf(k)) \in SUBSET Agents
  BY DEF Updates!AgentsFor, Agents
<1> QED
  BY <1>1, <1>2 DEF Updates!Proposal

\* The values the profile updates start from have their types.
LEMMA UpdatesIdle == Updates!Idle \in URecord /\ ~Updates!Idle.busy /\ Updates!NoRow \in URow
<1>1. (CHOOSE c \in Change : TRUE) \in Change
  BY DeskAssumption
<1>2. Updates!Idle \in URecord /\ ~Updates!Idle.busy
  BY <1>1 DEF Updates!Idle, URecord, Updates!State
<1>3. Updates!NoRow \in URow
  BY DEF Updates!NoRow, URow, Updates!State, Updates!Kind
<1> QED
  BY <1>2, <1>3

\* The inductive invariant of the profile updates holds at the start.
LEMMA UpdatesInit == DeskInit => Updates!IndInv
<1> SUFFICES ASSUME Updates!Init PROVE Updates!IndInv
  BY DEF DeskInit
<1>1. Updates!TypeOK
  BY UpdatesIdle, UpdatesTypes DEF Updates!Init
<1>2. Updates!ReadsAreOfProposed /\ Updates!RanWasApproved
  BY UpdatesIdle DEF Updates!Init, Updates!ReadsAreOfProposed, Updates!RanWasApproved
<1> QED
  BY <1>1, <1>2 DEF Updates!IndInv

\* A row that changes keeps what was proposed, and only a decision that had read
\* it as proposed changes it.
RowStands(c) ==
    /\ uRow[c].state # "none" => uRow'[c].state # "none" /\ uRow'[c].proposal = uRow[c].proposal
    /\ uRow[c].state \in Answers =>
          \/ uRow'[c].state = uRow[c].state
          \/ \E r \in Req : uRequest[r].busy /\ ~uRequest'[r].busy /\ uRequest[r].change = c

\* The update of a row by its id.
LEMMA UpdatesWrite ==
    ASSUME Updates!IndInv, NEW r \in Req, uRequest[r].busy, NEW decision \in Answers,
           uRow' = [uRow EXCEPT ![uRequest[r].change].state = decision],
           uRequest' = [uRequest EXCEPT ![r] = Updates!Idle]
    PROVE  uRow' \in [Change -> URow] /\ \A c \in Change : RowStands(c)
<1> DEFINE c == uRequest[r].change
           next == [uRow[c] EXCEPT !.state = decision]
<1>0. uRow \in [Change -> URow] /\ uRequest \in [Req -> URecord] /\ c \in Change
  BY UpdatesTypes DEF Updates!IndInv, URecord
<1>1. uRow[c] \in URow
  BY <1>0
<1>2. PICK s \in Updates!State, k \in Updates!Kind :
        uRow[c] = [state |-> s, kind |-> k, proposal |-> Updates!Proposal(k)]
  BY <1>1 DEF URow
<1>3. next = [state |-> decision, kind |-> k, proposal |-> Updates!Proposal(k)]
  BY <1>2
<1>4. next \in URow
  BY <1>3 DEF URow, Updates!State, Answers
<1>5. next.state = decision /\ next.proposal = uRow[c].proposal
  BY <1>2, <1>3
<1>6. uRow' = [uRow EXCEPT ![c] = next]
  OBVIOUS
<1>7. ~uRequest'[r].busy
  BY <1>0, UpdatesIdle
<1> HIDE DEF c, next
<1>8. uRow' \in [Change -> URow] /\ uRow'[c] = next /\ \A d \in Change \ {c} : uRow'[d] = uRow[d]
  BY <1>0, <1>4, <1>6
<1>9. ASSUME NEW d \in Change PROVE RowStands(d)
  <2>1. CASE d # c
    BY <1>8, <2>1 DEF RowStands
  <2>2. CASE d = c
    BY <1>5, <1>7, <1>8, <2>2 DEF RowStands, c, Answers
  <2> QED
    BY <2>1, <2>2
<1> QED
  BY <1>8, <1>9

\* Every step of the profile updates preserves the inductive invariant, one step of the proof
\* per action.
LEMMA UpdatesNext ==
    ASSUME Updates!IndInv, [Updates!Next]_(Updates!vars)
    PROVE  Updates!IndInv' /\ \A c \in Change : RowStands(c)
<1> DEFINE Good == Updates!IndInv' /\ \A c \in Change : RowStands(c)
<1> SUFFICES Good
  OBVIOUS
<1>0. /\ uRow \in [Change -> URow] /\ uRequest \in [Req -> URecord]
      /\ uTold \in [Change -> SUBSET Answers] /\ uRan \in [Change -> SUBSET Agents]
  BY UpdatesTypes DEF Updates!IndInv
<1>1. \A r \in Req : uRequest[r].busy =>
         /\ uRequest[r].read = "proposed" /\ uRow[uRequest[r].change].state # "none"
         /\ uRequest[r].agents = uRow[uRequest[r].change].proposal.agents
         /\ uRequest[r].change \in Change
  BY <1>0 DEF Updates!IndInv, Updates!ReadsAreOfProposed, URecord
<1>2. \A c \in Change : uRan[c] # {} =>
         /\ uRow[c].state # "none" /\ "approved" \in uTold[c] /\ uRan[c] = uRow[c].proposal.agents
  BY DEF Updates!IndInv, Updates!RanWasApproved
<1>r. ASSUME \A c \in Change : RowStands(c),
             \A s \in Req : uRequest'[s].busy =>
                 \/ uRequest'[s] = uRequest[s]
                 \/ /\ uRequest'[s].read = "proposed" /\ uRow[uRequest'[s].change].state # "none"
                    /\ uRequest'[s].agents = uRow[uRequest'[s].change].proposal.agents
                    /\ uRequest'[s].change \in Change
      PROVE  Updates!ReadsAreOfProposed'
  BY <1>r, <1>1 DEF RowStands, Updates!ReadsAreOfProposed
<1>3. ASSUME NEW c \in Change, NEW kind \in Updates!Kind, Updates!PostChange(c, kind) PROVE Good
  <2> DEFINE next == [state |-> "proposed", kind |-> kind, proposal |-> Updates!Proposal(kind)]
  <2>1. /\ uRow[c].state = "none" /\ uRow' = [uRow EXCEPT ![c] = next] /\ UNCHANGED <<uRequest, uTold, uRan>>
    BY <1>3 DEF Updates!PostChange
  <2>2. next \in URow
    BY DEF URow, Updates!State
  <2> HIDE DEF next
  <2>3. uRow' \in [Change -> URow] /\ \A d \in Change \ {c} : uRow'[d] = uRow[d]
    BY <1>0, <2>1, <2>2
  <2>4. \A d \in Change : RowStands(d)
    BY <2>1, <2>3 DEF RowStands, Answers
  <2>5. Updates!TypeOK'
    BY <2>1, <2>3, <1>0, UpdatesTypesNext
  <2>6. Updates!ReadsAreOfProposed'
    BY <2>1, <2>4, <1>r
  <2>7. Updates!RanWasApproved'
    BY <2>1, <2>3, <1>2 DEF Updates!RanWasApproved
  <2> QED
    BY <2>4, <2>5, <2>6, <2>7 DEF Updates!IndInv
<1>4. ASSUME NEW r \in Req, NEW c \in Change, NEW approved \in BOOLEAN, Updates!ReadToDecide(r, c, approved)
      PROVE  Good
  <2> DEFINE next == [change |-> c, approved |-> approved, busy |-> TRUE,
                      read |-> uRow[c].state, agents |-> uRow[c].proposal.agents]
  <2>1. /\ uRow[c].state = "proposed" /\ uRequest' = [uRequest EXCEPT ![r] = next]
        /\ UNCHANGED <<uRow, uTold, uRan>>
    BY <1>4 DEF Updates!ReadToDecide
  <2>2. next \in URecord
    BY <1>0, UpdatesAgents DEF URecord
  <2>3. next.read = "proposed" /\ next.change = c /\ next.agents = uRow[c].proposal.agents
    BY <2>1
  <2> HIDE DEF next
  <2>4. uRequest' \in [Req -> URecord] /\ uRequest'[r] = next /\ \A s \in Req \ {r} : uRequest'[s] = uRequest[s]
    BY <1>0, <2>1, <2>2
  <2>5. \A d \in Change : RowStands(d)
    BY <2>1 DEF RowStands
  <2>6. Updates!TypeOK'
    BY <2>1, <2>4, <1>0, UpdatesTypesNext
  <2>7. Updates!ReadsAreOfProposed'
    BY <2>1, <2>3, <2>4, <2>5, <1>r
  <2>8. Updates!RanWasApproved'
    BY <2>1, <1>2 DEF Updates!RanWasApproved
  <2> QED
    BY <2>5, <2>6, <2>7, <2>8 DEF Updates!IndInv
<1>e. ASSUME NEW r \in Req, uRequest' = [uRequest EXCEPT ![r] = Updates!Idle]
      PROVE  /\ uRequest' \in [Req -> URecord] /\ ~uRequest'[r].busy
             /\ \A s \in Req : uRequest'[s].busy => uRequest'[s] = uRequest[s]
  BY <1>e, <1>0, UpdatesIdle
<1>5. ASSUME NEW r \in Req, Updates!Decide(r) PROVE Good
  <2> DEFINE c == uRequest[r].change
             decision == Updates!Decision(uRequest[r].approved)
             more == IF uRequest[r].approved THEN uRequest[r].agents ELSE {}
  <2>1. /\ uRequest[r].busy /\ uRow' = [uRow EXCEPT ![c].state = decision]
        /\ uTold' = [uTold EXCEPT ![c] = uTold[c] \union {decision}]
        /\ uRan' = [uRan EXCEPT ![c] = uRan[c] \union more]
        /\ uRequest' = [uRequest EXCEPT ![r] = Updates!Idle]
    BY <1>5 DEF Updates!Decide
  <2>2. c \in Change /\ decision \in Answers /\ more \in SUBSET Agents
        /\ (more # {} => decision = "approved" /\ more = uRow[c].proposal.agents)
        /\ uRow[c].state # "none"
    BY <1>0, <1>1, <2>1 DEF Updates!Decision, Answers, URecord
  <2>3. uRow' \in [Change -> URow] /\ \A d \in Change : RowStands(d)
    BY <2>1, <2>2, UpdatesWrite
  <2>4. /\ uRequest' \in [Req -> URecord]
        /\ \A s \in Req : uRequest'[s].busy => uRequest'[s] = uRequest[s]
    BY <2>1, <1>e
  <2> HIDE DEF c, decision, more
  <2>5. /\ uTold' \in [Change -> SUBSET Answers] /\ uRan' \in [Change -> SUBSET Agents]
        /\ uTold'[c] = uTold[c] \union {decision} /\ uRan'[c] = uRan[c] \union more
        /\ \A d \in Change \ {c} : uTold'[d] = uTold[d] /\ uRan'[d] = uRan[d]
    BY <1>0, <2>1, <2>2
  <2>6. Updates!TypeOK'
    BY <2>3, <2>4, <2>5, UpdatesTypesNext
  <2>7. Updates!ReadsAreOfProposed'
    BY <2>3, <2>4, <1>r
  <2>8. Updates!RanWasApproved'
    <3>1. ASSUME NEW d \in Change, uRan'[d] # {}
          PROVE  uRow'[d].state # "none" /\ "approved" \in uTold'[d] /\ uRan'[d] = uRow'[d].proposal.agents
      <4>1. CASE d # c
        BY <4>1, <3>1, <2>3, <2>5, <1>2 DEF RowStands
      <4>2. CASE d = c
        <5>1. uRow'[c].state # "none" /\ uRow'[c].proposal = uRow[c].proposal
          BY <2>2, <2>3 DEF RowStands
        <5>2. CASE more = {}
          <6>1. uRan'[c] = uRan[c]
            BY <2>5, <5>2
          <6> QED
            BY <4>2, <3>1, <5>1, <6>1, <2>2, <2>5, <1>2
        <5>3. CASE more # {}
          <6>1. uRan'[c] = uRow[c].proposal.agents
            BY <2>2, <2>5, <5>3, <1>2
          <6> QED
            BY <4>2, <5>1, <5>3, <6>1, <2>2, <2>5
        <5> QED
          BY <5>2, <5>3
      <4> QED
        BY <4>1, <4>2
    <3> QED
      BY <3>1 DEF Updates!RanWasApproved
  <2> QED
    BY <2>3, <2>6, <2>7, <2>8 DEF Updates!IndInv
<1>6. ASSUME NEW r \in Req, Updates!DecideFails(r) PROVE Good
  <2>1. /\ uRequest[r].busy /\ uRequest' = [uRequest EXCEPT ![r] = Updates!Idle] /\ UNCHANGED <<uTold, uRan>>
    BY <1>6 DEF Updates!DecideFails
  <2>2. uRow' \in [Change -> URow] /\ \A d \in Change : RowStands(d)
    <3>1. CASE UNCHANGED uRow
      BY <3>1, <1>0 DEF RowStands
    <3>2. CASE uRow' = [uRow EXCEPT ![uRequest[r].change].state = Updates!Decision(uRequest[r].approved)]
      BY <3>2, <2>1, UpdatesWrite DEF Updates!Decision, Answers
    <3> QED
      BY <1>6, <3>1, <3>2 DEF Updates!DecideFails
  <2>3. /\ uRequest' \in [Req -> URecord]
        /\ \A s \in Req : uRequest'[s].busy => uRequest'[s] = uRequest[s]
    BY <2>1, <1>e
  <2>4. Updates!TypeOK'
    BY <2>1, <2>2, <2>3, <1>0, UpdatesTypesNext
  <2>5. Updates!ReadsAreOfProposed'
    BY <2>2, <2>3, <1>r
  <2>6. Updates!RanWasApproved'
    BY <2>1, <2>2, <1>2 DEF Updates!RanWasApproved, RowStands
  <2> QED
    BY <2>2, <2>4, <2>5, <2>6 DEF Updates!IndInv
<1>7. CASE UNCHANGED Updates!vars
  <2>1. UNCHANGED <<uRow, uRequest, uTold, uRan>>
    BY <1>7 DEF Updates!vars
  <2>2. \A d \in Change : RowStands(d)
    BY <2>1 DEF RowStands
  <2>3. Updates!TypeOK' /\ Updates!RanWasApproved' /\ Updates!ReadsAreOfProposed'
    BY <2>1, <2>2, <1>0, <1>2, <1>r, UpdatesTypesNext DEF Updates!RanWasApproved
  <2> QED
    BY <2>2, <2>3 DEF Updates!IndInv
<1> HIDE DEF Good
<1>8. CASE Updates!Next
  BY <1>8, <1>3, <1>4, <1>5, <1>6 DEF Updates!Next
<1> QED
  BY <1>7, <1>8

\* The inductive invariant of the profile updates always holds, whatever handlers run.
THEOREM UpdatesInductive == DeskSpec => []Updates!IndInv
<1>1. DeskInit => Updates!IndInv
  BY UpdatesInit
<1>2. Updates!IndInv /\ [DeskNext]_everything => Updates!IndInv'
  BY UpdatesNext, UpdatesStep
<1> QED
  BY <1>1, <1>2, PTL DEF DeskSpec

\* A decision on a profile change that was recorded stands, and what it made run
\* is what was decided (post_decision).
THEOREM DecisionsStand == DeskSpec => DecisionStands
<1> DEFINE Stands ==
      \A c \in Change :
        /\ uRow[c].state \in {"approved", "declined"} =>
              \/ uRow'[c].state = uRow[c].state
              \/ \E r \in Req : /\ uRequest[r].busy /\ ~uRequest'[r].busy
                               /\ uRequest[r].change = c /\ uRequest[r].read = "proposed"
        /\ uRan'[c] # {} => "approved" \in uTold'[c] /\ uRan'[c] = uRow[c].proposal.agents
<1>1. ASSUME Updates!IndInv, [Updates!Next]_(Updates!vars) PROVE [Stands]_(Updates!vars)
  <2>1. Updates!IndInv' /\ \A c \in Change : RowStands(c)
    BY <1>1, UpdatesNext
  <2>2. \A r \in Req : uRequest[r].busy => uRequest[r].read = "proposed"
    BY <1>1 DEF Updates!IndInv, Updates!ReadsAreOfProposed
  <2>3. SUFFICES ASSUME NEW c \in Change, uRan'[c] # {}
                 PROVE  "approved" \in uTold'[c] /\ uRan'[c] = uRow[c].proposal.agents
    BY <2>1, <2>2, <2>3 DEF RowStands, Answers
  <2>4. /\ uRow'[c].state # "none" /\ "approved" \in uTold'[c]
        /\ uRan'[c] = uRow'[c].proposal.agents
    BY <2>1, <2>3 DEF Updates!IndInv, Updates!RanWasApproved
  <2>5. uRow'[c].proposal = uRow[c].proposal
    <3>1. CASE uRow[c].state # "none"
      BY <3>1, <2>1 DEF RowStands
    <3>2. CASE uRow[c].state = "none"
      <4>1. uRan[c] = {}
        BY <1>1, <3>2 DEF Updates!IndInv, Updates!RanWasApproved
      <4>2. PICK r \in Req : Updates!Decide(r) /\ uRequest[r].change = c
        <5>1. uRan'[c] # uRan[c]
          BY <4>1, <2>3
        <5>2. CASE Updates!Next
          <6>1. PICK r \in Req : Updates!Decide(r)
            BY <5>1, <5>2 DEF Updates!Next, Updates!PostChange, Updates!ReadToDecide, Updates!DecideFails
          <6>2. uRequest[r].change = c
            BY <5>1, <6>1, <1>1, UpdatesTypes DEF Updates!Decide, Updates!IndInv
          <6> QED
            BY <6>1, <6>2
        <5>3. CASE UNCHANGED Updates!vars
          BY <5>1, <5>3 DEF Updates!vars
        <5> QED
          BY <1>1, <5>2, <5>3
      <4> QED
        BY <4>2, <3>2, <1>1 DEF Updates!Decide, Updates!IndInv, Updates!ReadsAreOfProposed
    <3> QED
      BY <3>1, <3>2
  <2> QED
    BY <2>4, <2>5
<1>2. Updates!IndInv /\ [DeskNext]_everything => [Stands]_(Updates!vars)
  BY <1>1, UpdatesStep
<1> QED
  BY <1>2, UpdatesInductive, PTL DEF DeskSpec, DecisionStands, Updates!DecisionStands

-----------------------------------------------------------------------------
(* The tracker.  A request that is alone at work on a card agrees with it, *)
(* unless a write was missed.                                              *)

\* A step of the desk is a step of the tracker, or leaves their variables alone.
LEMMA CardsStep == [DeskNext]_everything => [Cards!Next]_(Cards!vars)
BY DEF DeskNext, OthersWait, Off, everything, tracker, Cards!vars

TStage == Cards!Stage \union {Cards!None}
TCard == [stage : TStage, days : 0 .. FollowUpDays, reason : BOOLEAN, interview : BOOLEAN]
TRecord == [step : {"idle", "move", "log", "log_add", "delete"}, card : Card, to : TStage, read : TStage]

\* The types of the tracker, each as one set.
LEMMA CardsTypes ==
    Cards!TypeOK <=>
        /\ tCard \in [Card -> TCard] /\ tLast \in [Card -> TStage]
        /\ tRequest \in [Req -> TRecord] /\ tMissed \in [Card -> BOOLEAN]
BY DEF Cards!TypeOK, TCard, TRecord, TStage

\* The same, for the next state.
LEMMA CardsTypesNext ==
    /\ tCard' \in [Card -> TCard] /\ tLast' \in [Card -> TStage]
    /\ tRequest' \in [Req -> TRecord] /\ tMissed' \in [Card -> BOOLEAN]
    => Cards!TypeOK'
BY DEF Cards!TypeOK, TCard, TRecord, TStage

\* What the tracker take for granted of their constants.
LEMMA CardsConstants == FollowUpDays \in Nat /\ Targets \subseteq Cards!Stage /\ Card # {}
BY DeskAssumption

\* The values the tracker start from have their types.
LEMMA CardsIdle == /\ Cards!Idle \in TRecord /\ Cards!Idle.step = "idle"
                   /\ Cards!Gone \in TCard /\ Cards!Gone.stage = Cards!None /\ Cards!None \in TStage
<1>1. (CHOOSE c \in Card : TRUE) \in Card /\ 0 \in 0 .. FollowUpDays
  BY CardsConstants
<1> QED
  BY <1>1 DEF Cards!Idle, TRecord, TStage, Cards!Gone, TCard

\* normalise_stage gives a stage.
LEMMA Normalised == ASSUME NEW status \in Targets PROVE Cards!NormaliseStage(status) \in Cards!Stage
BY CardsConstants DEF Cards!NormaliseStage, Cards!Stage

Busy(r, c) == tRequest[r].step # "idle" /\ tRequest[r].card = c

\* The requests at work on a card, one by one.
LEMMA BusyIsBusyOn == \A c \in Card, r \in Req : r \in Cards!BusyOn(c) <=> Busy(r, c)
BY DEF Cards!BusyOn, Busy

\* The inductive invariant of the tracker holds at the start.
LEMMA CardsInit == DeskInit => Cards!IndInv
<1> SUFFICES ASSUME Cards!Init PROVE Cards!IndInv
  BY DEF DeskInit
<1>1. Cards!TypeOK
  BY CardsIdle, CardsTypes DEF Cards!Init
<1>2. \A r \in Req, c \in Card : ~Busy(r, c)
  BY CardsIdle DEF Cards!Init, Busy
<1>3. Cards!AloneAgrees
  <2>1. \A c \in Card, r \in Req : Cards!BusyOn(c) # {r}
    BY <1>2, BusyIsBusyOn
  <2> QED
    BY <2>1 DEF Cards!AloneAgrees
<1>4. Cards!HistoryTellsTheStage
  BY CardsIdle DEF Cards!Init, Cards!HistoryTellsTheStage
<1> QED
  BY <1>1, <1>3, <1>4 DEF Cards!IndInv

\* A request at work on one card touches no other.
On(r, c) ==
    /\ \A q \in Req \ {r} : tRequest'[q] = tRequest[q]
    /\ \A d \in Card \ {c} : /\ tCard'[d] = tCard[d] /\ tLast'[d] = tLast[d] /\ tMissed'[d] = tMissed[d]
                             /\ ~Busy(r, d) /\ ~Busy(r, d)'
    /\ tMissed[c] => tMissed'[c]

\* It starts on a card nobody else is at work on, or is the only one at work on it
\* if no write overlapped another's.
LEMMA OnACard ==
    ASSUME Cards!IndInv, NEW r \in Req, NEW c \in Card, On(r, c), Busy(r, c) \/ Busy(r, c)',
           \/ /\ ~Busy(r, c)
              /\ (\A q \in Req : ~Busy(q, c)) /\ ~tMissed'[c] => Cards!Agrees(r, c)'
           \/ /\ Busy(r, c)
              /\ (\E q \in Req \ {r} : Busy(q, c)) => tMissed'[c]
              /\ Cards!Agrees(r, c) /\ ~tMissed'[c] =>
                    IF Busy(r, c)' THEN Cards!Agrees(r, c)' ELSE tLast'[c] = tCard'[c].stage
    PROVE  Cards!AloneAgrees' /\ Cards!HistoryTellsTheStage'
<1>0. \A q \in Req, d \in Card : q # r \/ d # c => (Busy(q, d)' <=> Busy(q, d))
  BY DEF On, Busy
<1>1. \A d \in Card, q \in Req : (q \in Cards!BusyOn(d) <=> Busy(q, d)) /\ (q \in Cards!BusyOn(d)' <=> Busy(q, d)')
  BY DEF Cards!BusyOn, Busy
<1>2. \A d \in Card : Cards!BusyOn(d) \subseteq Req /\ Cards!BusyOn(d)' \subseteq Req
  BY DEF Cards!BusyOn
<1>3. ASSUME NEW d \in Card, NEW q \in Req, Cards!BusyOn(d)' = {q}, ~tMissed'[d] PROVE Cards!Agrees(q, d)'
  <2>1. CASE d # c
    <3>1. Cards!BusyOn(d) = {q} /\ ~tMissed[d]
      BY <2>1, <1>0, <1>1, <1>2, <1>3 DEF On
    <3>2. Cards!Agrees(q, d)
      BY <3>1 DEF Cards!IndInv, Cards!AloneAgrees
    <3>3. q # r
      BY <3>1, <2>1, <1>1 DEF On
    <3> QED
      BY <3>2, <3>3, <2>1 DEF On, Cards!Agrees
  <2>2. CASE d = c
    <3>1. ~tMissed[c]
      BY <1>3, <2>2 DEF On
    <3>2. CASE ~Busy(r, c)
      <4>1. q = r
        BY <3>2, <2>2, <1>1, <1>3
      <4>2. \A p \in Req : ~Busy(p, c)
        BY <4>1, <3>2, <2>2, <1>0, <1>1, <1>3
      <4> QED
        BY <4>1, <4>2, <3>2, <2>2, <1>3
    <3>3. CASE Busy(r, c)
      <4>1. \A p \in Req \ {r} : ~Busy(p, c)
        BY <3>3, <2>2, <1>3
      <4>2. q = r
        BY <4>1, <2>2, <1>0, <1>1, <1>3
      <4>3. Cards!BusyOn(c) = {r}
        BY <4>1, <3>3, <1>1, <1>2
      <4>4. Cards!Agrees(r, c)
        BY <4>3, <3>1 DEF Cards!IndInv, Cards!AloneAgrees
      <4>5. Busy(r, c)'
        BY <4>2, <2>2, <1>1, <1>3
      <4> QED
        BY <4>2, <4>4, <4>5, <3>3, <2>2, <1>3
    <3> QED
      BY <3>2, <3>3
  <2> QED
    BY <2>1, <2>2
<1>4. ASSUME NEW d \in Card, \A q \in Req : ~Busy(q, d)', ~tMissed'[d] PROVE tLast'[d] = tCard'[d].stage
  <2>1. CASE d # c
    <3>1. (\A q \in Req : ~Busy(q, d)) /\ ~tMissed[d]
      BY <2>1, <1>0, <1>4 DEF On
    <3> QED
      BY <3>1, <2>1 DEF On, Cards!IndInv, Cards!HistoryTellsTheStage, Busy
  <2>2. CASE d = c
    <3>1. Busy(r, c) /\ ~tMissed[c] /\ ~Busy(r, c)'
      BY <2>2, <1>4 DEF On
    <3>2. \A p \in Req \ {r} : ~Busy(p, c)
      BY <3>1, <2>2, <1>4
    <3>3. Cards!BusyOn(c) = {r}
      BY <3>1, <3>2, <1>1, <1>2
    <3>4. Cards!Agrees(r, c)
      BY <3>1, <3>3 DEF Cards!IndInv, Cards!AloneAgrees
    <3> QED
      BY <3>1, <3>4, <2>2, <1>4
  <2> QED
    BY <2>1, <2>2
<1>5. Cards!AloneAgrees'
  BY <1>3 DEF Cards!AloneAgrees
<1>6. Cards!HistoryTellsTheStage'
  BY <1>4 DEF Cards!HistoryTellsTheStage, Busy
<1> QED
  BY <1>5, <1>6

\* What a write marks as missed.
LEMMA CardsMisses ==
    ASSUME Cards!TypeOK, NEW r \in Req, NEW lost \in BOOLEAN, Cards!Misses(r, lost), NEW c \in Card, Busy(r, c)
    PROVE  /\ tMissed' \in [Card -> BOOLEAN]
           /\ tMissed'[c] <=> tMissed[c] \/ lost \/ \E q \in Req \ {r} : Busy(q, c)
           /\ \A d \in Card \ {c} : tMissed'[d] = tMissed[d]
<1>0. tMissed \in [Card -> BOOLEAN] /\ tRequest[r].card = c
  BY CardsTypes DEF Busy
<1>1. tMissed' = [tMissed EXCEPT ![c] = tMissed[c] \/ lost \/ Cards!Overlapped(r)]
  BY <1>0 DEF Cards!Misses
<1>2. Cards!Overlapped(r) <=> \E q \in Req \ {r} : Busy(q, c)
  BY <1>0 DEF Cards!Overlapped, Busy
<1>3. (tMissed[c] \/ lost \/ Cards!Overlapped(r)) \in BOOLEAN
  OBVIOUS
<1> QED
  BY <1>0, <1>1, <1>2, <1>3

\* A step that moves no card and no request.
LEMMA StagesStay ==
    ASSUME Cards!IndInv, \A c \in Card : tCard'[c].stage = tCard[c].stage,
           UNCHANGED <<tLast, tRequest, tMissed>>
    PROVE  Cards!AloneAgrees' /\ Cards!HistoryTellsTheStage'
<1>1. \A c \in Card : Cards!BusyOn(c)' = Cards!BusyOn(c)
  BY DEF Cards!BusyOn
<1>2. \A c \in Card, r \in Req : Cards!Agrees(r, c) => Cards!Agrees(r, c)'
  BY DEF Cards!Agrees
<1>3. Cards!AloneAgrees'
  BY <1>1, <1>2 DEF Cards!IndInv, Cards!AloneAgrees
<1>4. Cards!HistoryTellsTheStage'
  BY DEF Cards!IndInv, Cards!HistoryTellsTheStage
<1> QED
  BY <1>3, <1>4

\* What a request holds next, while the others hold what they held.
TakesUp(r, q) ==
    /\ tRequest' \in [Req -> TRecord] /\ tRequest'[r] = q
    /\ \A s \in Req \ {r} : tRequest'[s] = tRequest[s]

\* A request that takes up q.
LEMMA CardsTakesUp ==
    ASSUME Cards!TypeOK, NEW r \in Req, NEW q \in TRecord, tRequest' = [tRequest EXCEPT ![r] = q]
    PROVE  TakesUp(r, q)
BY CardsTypes DEF TakesUp

\* The update of a card.
LEMMA CardsPatched ==
    ASSUME Cards!TypeOK, NEW c \in Card, NEW to \in TStage, NEW reason \in BOOLEAN, NEW interview \in BOOLEAN,
           tCard' = Cards!Patched(c, to, reason, interview)
    PROVE  /\ tCard' \in [Card -> TCard] /\ tCard'[c].stage = to
           /\ \A d \in Card \ {c} : tCard'[d] = tCard[d]
<1> DEFINE q == [stage |-> to, days |-> 0, reason |-> tCard[c].reason \/ reason,
                 interview |-> tCard[c].interview \/ interview]
<1>0. tCard \in [Card -> TCard] /\ 0 \in 0 .. FollowUpDays
  BY CardsTypes, CardsConstants
<1>1. (tCard[c].reason \/ reason) \in BOOLEAN /\ (tCard[c].interview \/ interview) \in BOOLEAN
  OBVIOUS
<1>2. q \in TCard /\ q.stage = to
  BY <1>0, <1>1 DEF TCard
<1>3. tCard' = [tCard EXCEPT ![c] = q]
  BY DEF Cards!Patched
<1> HIDE DEF q
<1> QED
  BY <1>0, <1>2, <1>3

\* Every step of the tracker preserves the inductive invariant, one step of the proof
\* per action.
LEMMA CardsNext ==
    ASSUME Cards!IndInv, [Cards!Next]_(Cards!vars)
    PROVE  Cards!IndInv'
<1>0. /\ tCard \in [Card -> TCard] /\ tLast \in [Card -> TStage]
      /\ tRequest \in [Req -> TRecord] /\ tMissed \in [Card -> BOOLEAN]
      /\ Cards!TypeOK
  BY CardsTypes DEF Cards!IndInv
<1>1. ASSUME NEW r \in Req, NEW c \in Card, NEW to \in Targets, Cards!Add(r, c, to) PROVE Cards!IndInv'
  <2> DEFINE stage == Cards!NormaliseStage(to)
             gone == [Cards!Gone EXCEPT !.stage = stage]
             q == [step |-> "log_add", card |-> c, to |-> stage, read |-> Cards!None]
  <2>1. /\ tRequest[r].step = "idle" /\ tCard' = [tCard EXCEPT ![c] = gone]
        /\ tRequest' = [tRequest EXCEPT ![r] = q] /\ UNCHANGED <<tLast, tMissed>>
    BY <1>1 DEF Cards!Add
  <2>2. stage \in TStage
    BY Normalised DEF TStage
  <2>3. q \in TRecord /\ q.step = "log_add" /\ q.card = c /\ q.to = stage
    BY <2>2, CardsIdle DEF TRecord
  <2>4. gone \in TCard /\ gone.stage = stage
    BY <2>2, CardsIdle DEF TCard
  <2> HIDE DEF q, gone, stage
  <2>5. TakesUp(r, q)
    BY <2>1, <2>3, <1>0, CardsTakesUp
  <2>6. tCard' \in [Card -> TCard] /\ tCard'[c] = gone /\ \A d \in Card \ {c} : tCard'[d] = tCard[d]
    BY <2>1, <2>4, <1>0
  <2>7. Cards!TypeOK'
    BY <2>1, <2>5, <2>6, <1>0, CardsTypesNext DEF TakesUp
  <2>8. On(r, c) /\ ~Busy(r, c) /\ Busy(r, c)'
    BY <2>1, <2>3, <2>5, <2>6 DEF On, Busy, TakesUp
  <2>9. Cards!Agrees(r, c)'
    BY <2>3, <2>4, <2>5, <2>6 DEF Cards!Agrees, TakesUp
  <2> QED
    BY <2>7, <2>8, <2>9, OnACard DEF Cards!IndInv
<1>2. ASSUME NEW r \in Req, NEW c \in Card, NEW to \in Targets, Cards!ReadToMove(r, c, to) PROVE Cards!IndInv'
  <2> DEFINE q == [step |-> "move", card |-> c, to |-> to, read |-> tCard[c].stage]
  <2>1. /\ tRequest[r].step = "idle" /\ tRequest' = [tRequest EXCEPT ![r] = q]
        /\ UNCHANGED <<tCard, tLast, tMissed>>
    BY <1>2 DEF Cards!ReadToMove
  <2>2. to \in TStage /\ tCard[c].stage \in TStage
    BY <1>0, CardsConstants DEF TStage, TCard
  <2>3. q \in TRecord /\ q.step = "move" /\ q.card = c /\ q.read = tCard[c].stage
    BY <2>2 DEF TRecord
  <2> HIDE DEF q
  <2>4. TakesUp(r, q)
    BY <2>1, <2>3, <1>0, CardsTakesUp
  <2>5. Cards!TypeOK'
    BY <2>1, <2>4, <1>0, CardsTypesNext DEF TakesUp
  <2>6. On(r, c) /\ ~Busy(r, c) /\ Busy(r, c)'
    BY <2>1, <2>3, <2>4 DEF On, Busy, TakesUp
  <2>7. (\A p \in Req : ~Busy(p, c)) /\ ~tMissed'[c] => Cards!Agrees(r, c)'
    <3> SUFFICES ASSUME \A p \in Req : ~Busy(p, c), ~tMissed'[c] PROVE Cards!Agrees(r, c)'
      OBVIOUS
    <3>1. tLast[c] = tCard[c].stage
      BY <2>1 DEF Cards!IndInv, Cards!HistoryTellsTheStage, Busy
    <3> QED
      BY <2>1, <2>3, <2>4, <3>1 DEF Cards!Agrees, TakesUp
  <2> QED
    BY <2>5, <2>6, <2>7, OnACard DEF Cards!IndInv
<1>3. ASSUME NEW r \in Req, NEW c \in Card, Cards!DeleteEvents(r, c) PROVE Cards!IndInv'
  <2> DEFINE q == [step |-> "delete", card |-> c, to |-> Cards!None, read |-> tCard[c].stage]
  <2>1. /\ tRequest[r].step = "idle" /\ tRequest' = [tRequest EXCEPT ![r] = q]
        /\ tLast' = [tLast EXCEPT ![c] = Cards!None] /\ UNCHANGED <<tCard, tMissed>>
    BY <1>3 DEF Cards!DeleteEvents
  <2>2. tCard[c].stage \in TStage
    BY <1>0 DEF TCard
  <2>3. q \in TRecord /\ q.step = "delete" /\ q.card = c
    BY <2>2, CardsIdle DEF TRecord
  <2> HIDE DEF q
  <2>4. TakesUp(r, q)
    BY <2>1, <2>3, <1>0, CardsTakesUp
  <2>5. tLast' \in [Card -> TStage] /\ \A d \in Card \ {c} : tLast'[d] = tLast[d]
    BY <2>1, <1>0, CardsIdle
  <2>6. Cards!TypeOK'
    BY <2>1, <2>4, <2>5, <1>0, CardsTypesNext DEF TakesUp
  <2>7. On(r, c) /\ ~Busy(r, c) /\ Busy(r, c)'
    BY <2>1, <2>3, <2>4, <2>5 DEF On, Busy, TakesUp
  <2>8. Cards!Agrees(r, c)'
    BY <2>3, <2>4 DEF Cards!Agrees, TakesUp
  <2> QED
    BY <2>6, <2>7, <2>8, OnACard DEF Cards!IndInv
\* A request at work on its card.
<1>a. ASSUME NEW r \in Req, NEW c \in Card, Busy(r, c), NEW lost \in BOOLEAN, Cards!Misses(r, lost),
             NEW q \in TRecord, TakesUp(r, q), q.step # "idle" => q.card = c,
             tCard' \in [Card -> TCard], tLast' \in [Card -> TStage],
             \A d \in Card \ {c} : tCard'[d] = tCard[d] /\ tLast'[d] = tLast[d],
             Cards!Agrees(r, c) /\ ~lost =>
                IF q.step # "idle" THEN Cards!Agrees(r, c)' ELSE tLast'[c] = tCard'[c].stage
      PROVE  Cards!IndInv'
  <2>1. /\ tMissed' \in [Card -> BOOLEAN]
        /\ tMissed'[c] <=> tMissed[c] \/ lost \/ \E p \in Req \ {r} : Busy(p, c)
        /\ \A d \in Card \ {c} : tMissed'[d] = tMissed[d]
    BY <1>a, <1>0, CardsMisses
  <2>2. Cards!TypeOK'
    BY <1>a, <2>1, CardsTypesNext DEF TakesUp
  <2>3. On(r, c)
    BY <1>a, <2>1 DEF On, Busy, TakesUp
  <2>4. Busy(r, c)' <=> q.step # "idle"
    BY <1>a DEF Busy, TakesUp
  <2> QED
    BY <1>a, <2>1, <2>2, <2>3, <2>4, OnACard DEF Cards!IndInv
<1>b. ASSUME NEW r \in Req, tRequest[r].step # "idle"
      PROVE  tRequest[r].card \in Card /\ Busy(r, tRequest[r].card) /\ tRequest[r].to \in TStage
  BY <1>0, <1>b DEF Busy, TRecord
<1>e. ASSUME NEW r \in Req, Cards!Ends(r)
      PROVE  TakesUp(r, Cards!Idle) /\ Cards!Idle \in TRecord /\ Cards!Idle.step = "idle"
  BY <1>e, <1>0, CardsTakesUp, CardsIdle DEF Cards!Ends
<1>4. ASSUME NEW r \in Req, Cards!Move(r) PROVE Cards!IndInv'
  <2> DEFINE c == tRequest[r].card
             lost == FALSE
  <2>1. /\ tRequest[r].step = "move" /\ Cards!Misses(r, FALSE) /\ UNCHANGED tLast
        /\ \E reason, interview \in BOOLEAN : tCard' = Cards!Patched(c, tRequest[r].to, reason, interview)
        /\ IF tRequest[r].read # tRequest[r].to
           THEN tRequest' = [tRequest EXCEPT ![r].step = "log"] ELSE Cards!Ends(r)
    BY <1>4 DEF Cards!Move
  <2>2. c \in Card /\ Busy(r, c) /\ tRequest[r].to \in TStage
    BY <2>1, <1>b
  <2>3. /\ tCard' \in [Card -> TCard] /\ tCard'[c].stage = tRequest[r].to
        /\ \A d \in Card \ {c} : tCard'[d] = tCard[d]
    BY <2>1, <2>2, <1>0, CardsPatched
  <2>4. CASE tRequest[r].read # tRequest[r].to
    <3> DEFINE q == [tRequest[r] EXCEPT !.step = "log"]
    <3>1. q \in TRecord /\ q.step = "log" /\ q.card = c /\ q.to = tRequest[r].to
      BY <1>0 DEF TRecord
    <3>2. tRequest' = [tRequest EXCEPT ![r] = q]
      BY <2>1, <2>4
    <3> HIDE DEF q
    <3>3. TakesUp(r, q)
      BY <3>1, <3>2, <1>0, CardsTakesUp
    <3>4. ASSUME NEW d \in Card, d = c PROVE Cards!Agrees(r, d)'
      BY <2>3, <3>1, <3>3, <3>4 DEF Cards!Agrees, TakesUp
    <3>5. tLast' \in [Card -> TStage] /\ \A d \in Card \ {c} : tLast'[d] = tLast[d]
      BY <2>1, <1>0
    <3>6. q.step # "idle" /\ (q.step # "idle" => q.card = c)
      BY <3>1
    <3>7. Cards!Misses(r, lost) /\ lost \in BOOLEAN
      BY <2>1
    <3>8. c \in Card /\ Busy(r, c)
      BY <2>2
    <3>9. \A d \in Card \ {c} : tCard'[d] = tCard[d] /\ tLast'[d] = tLast[d]
      BY <2>3, <3>5
    <3>10. tCard' \in [Card -> TCard] /\ q \in TRecord
      BY <2>3, <3>1
    <3> HIDE DEF c, lost
    <3> QED
      BY <3>3, <3>4, <3>5, <3>6, <3>7, <3>8, <3>9, <3>10, <1>a
  <2>5. CASE tRequest[r].read = tRequest[r].to
    <3>1. TakesUp(r, Cards!Idle) /\ Cards!Idle \in TRecord /\ Cards!Idle.step = "idle"
      BY <2>1, <2>5, <1>e
    <3>2. Cards!Agrees(r, c) => tLast'[c] = tCard'[c].stage
      BY <2>1, <2>3, <2>5 DEF Cards!Agrees
    <3> QED
      BY <2>1, <2>2, <2>3, <3>1, <3>2, <1>0, <1>a
  <2> QED
    BY <2>4, <2>5
<1>5. ASSUME NEW r \in Req, Cards!MoveFails(r) PROVE Cards!IndInv'
  <2> DEFINE c == tRequest[r].card
             lost == tCard' # tCard
  <2>1. /\ tRequest[r].step = "move" /\ Cards!Misses(r, lost) /\ UNCHANGED tLast /\ Cards!Ends(r)
        /\ UNCHANGED tCard \/ tCard' = Cards!Patched(c, tRequest[r].to, FALSE, FALSE)
    BY <1>5 DEF Cards!MoveFails
  <2>2. c \in Card /\ Busy(r, c) /\ tRequest[r].to \in TStage
    BY <2>1, <1>b
  <2>3. /\ tCard' \in [Card -> TCard] /\ \A d \in Card \ {c} : tCard'[d] = tCard[d]
    BY <2>1, <2>2, <1>0, CardsPatched
  <2>4. TakesUp(r, Cards!Idle) /\ Cards!Idle \in TRecord /\ Cards!Idle.step = "idle"
    BY <2>1, <1>e
  <2>5. Cards!Agrees(r, c) /\ ~lost => tLast'[c] = tCard'[c].stage
    BY <2>1 DEF Cards!Agrees
  <2>6. lost \in BOOLEAN
    OBVIOUS
  <2> HIDE DEF lost
  <2> QED
    BY <2>1, <2>2, <2>3, <2>4, <2>5, <2>6, <1>0, <1>a
<1>6. ASSUME NEW r \in Req, Cards!Log(r) PROVE Cards!IndInv'
  <2> DEFINE c == tRequest[r].card
             logged == [tLast EXCEPT ![c] = tRequest[r].to]
             lost == tLast' # logged
  <2>1. /\ tRequest[r].step \in {"log", "log_add"} /\ Cards!Misses(r, lost) /\ UNCHANGED tCard /\ Cards!Ends(r)
        /\ tLast' = tLast \/ tLast' = logged
    BY <1>6 DEF Cards!Log
  <2>2. c \in Card /\ Busy(r, c) /\ tRequest[r].to \in TStage
    BY <2>1, <1>b
  <2>3. /\ logged \in [Card -> TStage] /\ logged[c] = tRequest[r].to
        /\ \A d \in Card \ {c} : logged[d] = tLast[d]
    BY <2>2, <1>0
  <2>4. TakesUp(r, Cards!Idle) /\ Cards!Idle \in TRecord /\ Cards!Idle.step = "idle"
    BY <2>1, <1>e
  <2>5. Cards!Agrees(r, c) => tRequest[r].to = tCard[c].stage
    BY <2>1 DEF Cards!Agrees
  <2>6. lost \in BOOLEAN
    OBVIOUS
  <2> HIDE DEF logged
  <2>7. tLast' \in [Card -> TStage] /\ \A d \in Card \ {c} : tLast'[d] = tLast[d]
    BY <2>1, <2>3, <1>0
  <2>8. Cards!Agrees(r, c) /\ ~lost => tLast'[c] = tCard'[c].stage
    BY <2>1, <2>3, <2>5
  <2> HIDE DEF lost
  <2> QED
    BY <2>1, <2>2, <2>4, <2>6, <2>7, <2>8, <1>0, <1>a
<1>7. ASSUME NEW r \in Req, Cards!DeleteCard(r) PROVE Cards!IndInv'
  <2> DEFINE c == tRequest[r].card
  <2>1. tRequest[r].step = "delete" /\ Cards!Ends(r)
    BY <1>7 DEF Cards!DeleteCard
  <2>2. c \in Card /\ Busy(r, c)
    BY <2>1, <1>b
  <2>3. TakesUp(r, Cards!Idle) /\ Cards!Idle \in TRecord /\ Cards!Idle.step = "idle"
    BY <2>1, <1>e
  <2>4. CASE /\ tCard' = [tCard EXCEPT ![c] = Cards!Gone] /\ tLast' = [tLast EXCEPT ![c] = Cards!None]
             /\ Cards!Misses(r, FALSE)
    <3>1. /\ tCard' \in [Card -> TCard] /\ tLast' \in [Card -> TStage] /\ tLast'[c] = tCard'[c].stage
          /\ \A d \in Card \ {c} : tCard'[d] = tCard[d] /\ tLast'[d] = tLast[d]
      BY <2>2, <2>4, <1>0, CardsIdle
    <3> QED
      BY <2>2, <2>3, <2>4, <3>1, <1>a
  <2>5. CASE UNCHANGED <<tCard, tLast>> /\ Cards!Misses(r, TRUE)
    BY <2>2, <2>3, <2>5, <1>0, <1>a
  <2> QED
    BY <1>7, <2>4, <2>5 DEF Cards!DeleteCard
\* Time, and what starts the clock again, moves no card.
<1>c. ASSUME tCard' \in [Card -> TCard], \A c \in Card : tCard'[c].stage = tCard[c].stage,
             UNCHANGED <<tLast, tRequest, tMissed>>
      PROVE  Cards!IndInv'
  <2>1. Cards!TypeOK'
    BY <1>c, <1>0, CardsTypesNext
  <2> QED
    BY <1>c, <2>1, StagesStay DEF Cards!IndInv
<1>8. ASSUME NEW c \in Card, Cards!FollowUp(c) PROVE Cards!IndInv'
  <2> DEFINE q == [tCard[c] EXCEPT !.days = 0]
  <2>1. tCard' = [tCard EXCEPT ![c] = q] /\ UNCHANGED <<tLast, tRequest, tMissed>>
    BY <1>8 DEF Cards!FollowUp
  <2>2. q \in TCard /\ q.stage = tCard[c].stage
    <3>1. 0 \in 0 .. FollowUpDays /\ tCard[c] \in TCard
      BY <1>0, CardsConstants
    <3> QED
      BY <3>1 DEF TCard
  <2> HIDE DEF q
  <2>3. tCard' \in [Card -> TCard] /\ \A d \in Card : tCard'[d].stage = tCard[d].stage
    BY <2>1, <2>2, <1>0
  <2> QED
    BY <2>1, <2>3, <1>c
<1>9. ASSUME Cards!DayPasses PROVE Cards!IndInv'
  <2>1. /\ tCard' = [c \in Card |-> IF Cards!Exists(c) /\ tCard[c].days < FollowUpDays
                                    THEN [tCard[c] EXCEPT !.days = tCard[c].days + 1] ELSE tCard[c]]
        /\ UNCHANGED <<tLast, tRequest, tMissed>>
    BY <1>9 DEF Cards!DayPasses
  <2>2. ASSUME NEW c \in Card PROVE tCard'[c] \in TCard /\ tCard'[c].stage = tCard[c].stage
    <3>1. CASE tCard'[c] = tCard[c]
      BY <3>1, <1>0
    <3>2. CASE tCard[c].days < FollowUpDays /\ tCard'[c] = [tCard[c] EXCEPT !.days = tCard[c].days + 1]
      <4>1. tCard[c] \in TCard /\ tCard[c].days \in 0 .. FollowUpDays
        BY <1>0 DEF TCard
      <4>2. tCard[c].days + 1 \in 0 .. FollowUpDays
        BY <4>1, <3>2, CardsConstants
      <4> QED
        BY <4>1, <4>2, <3>2 DEF TCard
    <3> QED
      BY <2>1, <3>1, <3>2
  <2>3. tCard' \in [Card -> TCard]
    BY <2>1, <2>2
  <2> QED
    BY <2>1, <2>2, <2>3, <1>c
<1>10. CASE UNCHANGED Cards!vars
  BY <1>10, <1>0, <1>c DEF Cards!vars
<1>11. CASE Cards!Next
  BY <1>11, <1>1, <1>2, <1>3, <1>4, <1>5, <1>6, <1>7, <1>8, <1>9 DEF Cards!Next
<1> QED
  BY <1>10, <1>11

\* The inductive invariant of the tracker always holds, whatever handlers run.
THEOREM CardsInductive == DeskSpec => []Cards!IndInv
<1>1. DeskInit => Cards!IndInv
  BY CardsInit
<1>2. Cards!IndInv /\ [DeskNext]_everything => Cards!IndInv'
  BY CardsNext, CardsStep
<1> QED
  BY <1>1, <1>2, PTL DEF DeskSpec

\* The history of a card ends in the stage it is in, unless an event was lost or
\* two requests overlapped (move_application).
THEOREM HistoriesTell == DeskSpec => []HistoryTellsTheStage
<1>1. Cards!IndInv => HistoryTellsTheStage
  BY DEF Cards!IndInv, HistoryTellsTheStage
<1> QED
  BY <1>1, CardsInductive, PTL

-----------------------------------------------------------------------------
(* Market batches.  An item that is not sourced came after the last check, *)
(* in a batch that is published and in one about to be.                    *)

\* A step of the desk is a step of the market batches, or leaves their variables alone.
LEMMA MarketStep == [DeskNext]_everything => [Market!Next]_(Market!vars)
BY DEF DeskNext, OthersWait, Off, everything, market, Market!vars

MRow == [stored : BOOLEAN, items : Market!Items, published_at : -1 .. MarketDays,
         next_refresh : -1 .. MarketDays + 1]
MPublish == [busy : BOOLEAN, key : Key]

\* The types of the market batches, each as one set.
LEMMA MarketTypes ==
    Market!TypeOK <=>
        /\ mDay \in 0 .. MarketDays /\ mBatch \in [Key -> MRow]
        /\ mPublish \in [Publisher -> MPublish] /\ mEdited \in [Key -> BOOLEAN]
BY DEF Market!TypeOK, Market!Row, MRow, MPublish, Market!Draft

\* The same, for the next state.
LEMMA MarketTypesNext ==
    /\ mDay' \in 0 .. MarketDays /\ mBatch' \in [Key -> MRow]
    /\ mPublish' \in [Publisher -> MPublish] /\ mEdited' \in [Key -> BOOLEAN]
    => Market!TypeOK'
BY DEF Market!TypeOK, Market!Row, MRow, MPublish, Market!Draft

\* What the market batches take for granted of their constants.
LEMMA MarketConstants == MarketDays \in Nat /\ Market!Draft = -1
BY DeskAssumption DEF Market!Draft

\* The values the market batches start from have their types.
LEMMA MarketIdle == /\ Market!Idle \in MPublish /\ ~Market!Idle.busy
                    /\ Market!Absent \in MRow /\ Market!Absent.published_at = -1
<1>1. (CHOOSE k \in Key : TRUE) \in Key
  BY DeskAssumption
<1>2. -1 \in -1 .. MarketDays /\ -1 \in -1 .. MarketDays + 1
  BY MarketConstants
<1> QED
  BY <1>1, <1>2 DEF Market!Idle, MPublish, Market!Absent, MRow, Market!Items, Market!Draft

\* The inductive invariant of the market batches holds at the start.
LEMMA MarketInit == DeskInit => Market!IndInv
<1> SUFFICES ASSUME Market!Init PROVE Market!IndInv
  BY DEF DeskInit
<1>1. Market!TypeOK
  BY MarketIdle, MarketTypes, MarketConstants DEF Market!Init
<1>2. /\ \A p \in Publisher : ~mPublish[p].busy
      /\ \A k \in Key : mBatch[k].published_at = Market!Draft
  BY MarketIdle, MarketConstants DEF Market!Init
<1> QED
  BY <1>1, <1>2 DEF Market!IndInv

\* Every step of the market batches preserves the inductive invariant, one step of the proof
\* per action.
LEMMA MarketNext ==
    ASSUME Market!IndInv, [Market!Next]_(Market!vars)
    PROVE  Market!IndInv'
<1>0. /\ mDay \in 0 .. MarketDays /\ mBatch \in [Key -> MRow]
      /\ mPublish \in [Publisher -> MPublish] /\ mEdited \in [Key -> BOOLEAN]
      /\ MarketDays \in Nat
  BY MarketTypes, MarketConstants DEF Market!IndInv
<1>1. /\ \A p \in Publisher : mPublish[p].busy => Market!CheckedOrEdited(mPublish[p].key)
      /\ \A k \in Key : mBatch[k].published_at # Market!Draft => Market!CheckedOrEdited(k)
  BY DEF Market!IndInv
<1>2. ASSUME NEW k \in Key, NEW items \in Market!Items, NEW refresh \in {Market!Draft, mDay + 1},
             Market!Upsert(k, items, refresh)
      PROVE  Market!IndInv'
  <2> DEFINE next == [mBatch[k] EXCEPT !.stored = TRUE, !.items = items, !.next_refresh = refresh]
  <2>1. /\ mBatch' = [mBatch EXCEPT ![k] = next] /\ mEdited' = [mEdited EXCEPT ![k] = TRUE]
        /\ UNCHANGED <<mDay, mPublish>>
    BY <1>2 DEF Market!Upsert
  <2>2. refresh \in -1 .. MarketDays + 1
    BY <1>0, MarketConstants
  <2>3. next \in MRow
    BY <1>0, <2>2 DEF MRow
  <2> HIDE DEF next
  <2>4. /\ mBatch' \in [Key -> MRow] /\ mEdited' \in [Key -> BOOLEAN] /\ mEdited'[k] = TRUE
        /\ \A l \in Key \ {k} : mBatch'[l] = mBatch[l] /\ mEdited'[l] = mEdited[l]
    BY <1>0, <2>1, <2>3
  <2>5. Market!TypeOK'
    BY <2>1, <2>4, <1>0, MarketTypesNext
  <2>6. \A l \in Key : Market!CheckedOrEdited(l) => Market!CheckedOrEdited(l)'
    BY <2>4 DEF Market!CheckedOrEdited
  <2>7. \A p \in Publisher : mPublish'[p].busy => Market!CheckedOrEdited(mPublish[p].key)'
    BY <2>1, <2>6, <1>0, <1>1 DEF MPublish
  <2>8. \A l \in Key : mBatch'[l].published_at # Market!Draft => Market!CheckedOrEdited(l)'
    <3>1. Market!CheckedOrEdited(k)'
      BY <2>4 DEF Market!CheckedOrEdited
    <3> QED
      BY <3>1, <2>4, <2>6, <1>1
  <2> QED
    BY <2>1, <2>5, <2>7, <2>8 DEF Market!IndInv, Market!CheckedOrEdited
<1>3. ASSUME NEW p \in Publisher, NEW k \in Key, Market!CheckToPublish(p, k) PROVE Market!IndInv'
  <2> DEFINE next == [busy |-> TRUE, key |-> k]
  <2>1. /\ mBatch[k].items = "sourced" /\ mPublish' = [mPublish EXCEPT ![p] = next]
        /\ mEdited' = [mEdited EXCEPT ![k] = FALSE] /\ UNCHANGED <<mDay, mBatch>>
    BY <1>3 DEF Market!CheckToPublish
  <2>2. next \in MPublish /\ next.key = k
    BY DEF MPublish
  <2> HIDE DEF next
  <2>3. /\ mPublish' \in [Publisher -> MPublish] /\ mPublish'[p] = next
        /\ \A q \in Publisher \ {p} : mPublish'[q] = mPublish[q]
        /\ mEdited' \in [Key -> BOOLEAN] /\ \A l \in Key \ {k} : mEdited'[l] = mEdited[l]
    BY <1>0, <2>1, <2>2
  <2>4. Market!TypeOK'
    BY <2>1, <2>3, <1>0, MarketTypesNext
  <2>5. \A l \in Key : l = k \/ Market!CheckedOrEdited(l) => Market!CheckedOrEdited(l)'
    BY <2>1, <2>3 DEF Market!CheckedOrEdited
  <2>6. \A q \in Publisher : mPublish'[q].busy => mPublish'[q].key \in Key /\ (mPublish'[q].key = k \/ Market!CheckedOrEdited(mPublish'[q].key))
    BY <2>2, <2>3, <1>0, <1>1 DEF MPublish
  <2>7. \A q \in Publisher : mPublish'[q].busy => (mBatch'[mPublish'[q].key].items = "sourced" \/ mEdited'[mPublish'[q].key])
    BY <2>5, <2>6 DEF Market!CheckedOrEdited
  <2>8. \A l \in Key : mBatch'[l].published_at # Market!Draft => Market!CheckedOrEdited(l)'
    BY <2>1, <2>5, <1>1
  <2> QED
    BY <2>4, <2>7, <2>8 DEF Market!IndInv, Market!CheckedOrEdited
<1>4. ASSUME NEW p \in Publisher, Market!Publish(p) PROVE Market!IndInv'
  <2> DEFINE k == mPublish[p].key
             next == [mBatch[k] EXCEPT !.published_at = mDay]
  <2>1. /\ mPublish[p].busy /\ mPublish' = [mPublish EXCEPT ![p] = Market!Idle] /\ UNCHANGED <<mDay, mEdited>>
        /\ mBatch' = mBatch \/ mBatch' = [mBatch EXCEPT ![k] = next]
    BY <1>4 DEF Market!Publish
  <2>2. k \in Key /\ Market!CheckedOrEdited(k)
    BY <2>1, <1>0, <1>1 DEF MPublish
  <2>3. mDay \in -1 .. MarketDays
    BY <1>0
  <2>4. next \in MRow /\ next.items = mBatch[k].items
    BY <1>0, <2>2, <2>3 DEF MRow
  <2> HIDE DEF next, k
  <2>5. /\ mBatch' \in [Key -> MRow] /\ \A l \in Key : mBatch'[l].items = mBatch[l].items
        /\ \A l \in Key \ {k} : mBatch'[l] = mBatch[l]
    <3>1. CASE mBatch' = mBatch
      BY <3>1, <1>0
    <3>2. CASE mBatch' = [mBatch EXCEPT ![k] = next]
      BY <3>2, <1>0, <2>2, <2>4
    <3> QED
      BY <2>1, <3>1, <3>2
  <2>6. /\ mPublish' \in [Publisher -> MPublish]
        /\ \A q \in Publisher : mPublish'[q].busy => mPublish'[q] = mPublish[q]
    BY <1>0, <2>1, MarketIdle
  <2>7. Market!TypeOK'
    BY <2>1, <2>5, <2>6, <1>0, MarketTypesNext
  <2>8. \A l \in Key : Market!CheckedOrEdited(l) => Market!CheckedOrEdited(l)'
    BY <2>1, <2>5 DEF Market!CheckedOrEdited
  <2>9. \A q \in Publisher : mPublish'[q].busy => (mBatch'[mPublish'[q].key].items = "sourced" \/ mEdited'[mPublish'[q].key])
    BY <2>6, <2>8, <1>0, <1>1 DEF Market!CheckedOrEdited, MPublish
  <2>10. \A l \in Key : mBatch'[l].published_at # Market!Draft => Market!CheckedOrEdited(l)'
    BY <2>2, <2>5, <2>8, <1>1
  <2> QED
    BY <2>7, <2>9, <2>10 DEF Market!IndInv, Market!CheckedOrEdited
<1>5. ASSUME mDay' \in 0 .. MarketDays, UNCHANGED <<mBatch, mPublish, mEdited>> PROVE Market!IndInv'
  BY <1>5, <1>0, <1>1, MarketTypesNext DEF Market!IndInv, Market!CheckedOrEdited
<1>6. CASE Market!NextDay
  <2>1. mDay' \in 0 .. MarketDays
    BY <1>0, <1>6 DEF Market!NextDay
  <2> QED
    BY <2>1, <1>5, <1>6 DEF Market!NextDay
<1>7. CASE UNCHANGED Market!vars
  BY <1>0, <1>5, <1>7 DEF Market!vars
<1> QED
  BY <1>2, <1>3, <1>4, <1>6, <1>7 DEF Market!Next

\* The inductive invariant of the market batches always holds, whatever handlers run.
THEOREM MarketInductive == DeskSpec => []Market!IndInv
<1>1. DeskInit => Market!IndInv
  BY MarketInit
<1>2. Market!IndInv /\ [DeskNext]_everything => Market!IndInv'
  BY MarketNext, MarketStep
<1> QED
  BY <1>1, <1>2, PTL DEF DeskSpec

\* Only checked items are live, but for those edited by hand (publish_batch,
\* live_batch).
THEOREM LiveIsChecked == DeskSpec => []LiveWasChecked
<1>1. Market!IndInv => LiveWasChecked
  <2> SUFFICES ASSUME Market!IndInv, NEW k \in Market!Wire PROVE Market!CheckedOrEdited(k)
    BY DEF LiveWasChecked, Market!LiveWasChecked, Market!CheckedOrEdited
  <2>1. k \in Key /\ Market!BatchState(mBatch[k]) = "published"
    BY DEF Market!Wire, Market!Live
  <2>2. mBatch[k].published_at # Market!Draft
    BY <2>1 DEF Market!BatchState
  <2> QED
    BY <2>1, <2>2 DEF Market!IndInv
<1> QED
  BY <1>1, MarketInductive, PTL

-----------------------------------------------------------------------------
(* The settings page.  A purge knows of every file but the unseen ones, and*)
(* one about to turn retention off has deleted all it knew of.             *)

\* A step of the desk is a step of the settings page, or leaves their variables alone.
LEMMA PageStep == [DeskNext]_everything => [Page!Next]_(Page!vars)
BY DEF DeskNext, OthersWait, Off, everything, settings, Page!vars

\* What the settings page take for granted of their constants.
LEMMA PageConstants == Page!Retention \notin Field /\ Page!NoValue \notin Value /\ Field # {}
BY DeskAssumption

SValue == Value \union {Page!NoValue}
SStep == {"idle", "read_back", "purge", "opt_in", "opt_out", "fix"}
SRecord == [step : SStep, field : Field, value : SValue, todo : SUBSET File, failed : SUBSET File,
            profile : [Field -> SValue], optIn : BOOLEAN]

\* The types of the settings page, each as one set.
LEMMA PageTypes ==
    Page!TypeOK <=>
        /\ sProfile \in [Field -> SValue] /\ sTold \in [Field -> SValue] /\ sOptIn \in BOOLEAN
        /\ sFiles \subseteq File /\ sUnseen \subseteq File /\ sRequest \in [Req -> SRecord]
        /\ sUndone \subseteq Field \union {Page!Retention}
BY DEF Page!TypeOK, SRecord, SValue, SStep

\* The same, for the next state.
LEMMA PageTypesNext ==
    /\ sProfile' \in [Field -> SValue] /\ sTold' \in [Field -> SValue] /\ sOptIn' \in BOOLEAN
    /\ sFiles' \subseteq File /\ sUnseen' \subseteq File /\ sRequest' \in [Req -> SRecord]
    /\ sUndone' \subseteq Field \union {Page!Retention}
    => Page!TypeOK'
BY DEF Page!TypeOK, SRecord, SValue, SStep

\* The values the settings page start from have their types.
LEMMA PageIdle == Page!Unread \in [Field -> SValue] /\ Page!Idle \in SRecord /\ Page!Idle.step = "idle"
<1>1. (CHOOSE f \in Field : TRUE) \in Field
  BY PageConstants
<1>2. Page!Unread \in [Field -> SValue] /\ Page!NoValue \in SValue
  BY DEF Page!Unread, SValue
<1> QED
  BY <1>1, <1>2 DEF Page!Idle, SRecord, SStep

\* The inductive invariant of the settings page holds at the start.
LEMMA PageInit == DeskInit => Page!IndInv
<1> SUFFICES ASSUME Page!Init PROVE Page!IndInv
  BY DEF DeskInit
<1>1. Page!TypeOK
  <2>1. sProfile \in [Field -> SValue] /\ sTold \in [Field -> SValue] /\ sRequest \in [Req -> SRecord]
    BY PageIdle DEF Page!Init
  <2>2. sOptIn \in BOOLEAN /\ sFiles = {} /\ sUnseen = {} /\ sUndone = {}
    BY DEF Page!Init
  <2> QED
    BY <2>1, <2>2, PageTypes
<1>2. \A r \in Req : sRequest[r].step = "idle"
  BY PageIdle DEF Page!Init
<1>3. Page!PurgesKnowTheFiles
  BY <1>2 DEF Page!PurgesKnowTheFiles, Page!At
<1>4. Page!SettingsSayWhatIs
  BY DEF Page!Init, Page!SettingsSayWhatIs
<1> QED
  BY <1>1, <1>3, <1>4 DEF Page!IndInv

\* What a request holds next, while the others hold what they held.
Holds(r, q) ==
    /\ sRequest' \in [Req -> SRecord] /\ sRequest'[r] = q
    /\ \A s \in Req \ {r} : sRequest'[s] = sRequest[s]

\* What a request of the page holds next.
LEMMA PageHolds ==
    ASSUME Page!TypeOK, NEW r \in Req, NEW q \in SRecord, sRequest' = [sRequest EXCEPT ![r] = q]
    PROVE  Holds(r, q)
BY PageTypes DEF Holds

\* A request that starts or ends its work on nothing but a setting.
LEMMA PagePurges ==
    ASSUME Page!PurgesKnowTheFiles, NEW r \in Req, NEW q \in SRecord, Holds(r, q),
           sFiles' \subseteq sFiles \union sUnseen', sUnseen' = sUnseen \/ sUnseen \subseteq sUnseen',
           q.step \in {"purge", "opt_out"} => sFiles' \subseteq sUnseen' \union q.todo \union q.failed,
           q.step = "opt_out" => sFiles' \subseteq sUnseen'
    PROVE  Page!PurgesKnowTheFiles'
<1>1. ASSUME NEW s \in Req
      PROVE  /\ sRequest'[s].step = "purge" => sFiles' \subseteq sUnseen' \union sRequest'[s].todo \union sRequest'[s].failed
             /\ sRequest'[s].step = "opt_out" => sFiles' \subseteq sUnseen'
  <2>1. CASE s = r
    BY <2>1 DEF Holds
  <2>2. CASE s # r
    BY <2>2 DEF Holds, Page!PurgesKnowTheFiles, Page!At
  <2> QED
    BY <2>1, <2>2
<1> QED
  BY <1>1 DEF Page!PurgesKnowTheFiles, Page!At

\* Every step of the settings page preserves the inductive invariant, one step of the proof
\* per action.
LEMMA PageNext ==
    ASSUME Page!IndInv, [Page!Next]_(Page!vars)
    PROVE  Page!IndInv'
<1>0. /\ sProfile \in [Field -> SValue] /\ sTold \in [Field -> SValue] /\ sOptIn \in BOOLEAN
      /\ sFiles \subseteq File /\ sUnseen \subseteq File /\ sRequest \in [Req -> SRecord]
      /\ sUndone \subseteq Field \union {Page!Retention}
      /\ Page!TypeOK /\ Page!PurgesKnowTheFiles
  BY PageTypes DEF Page!IndInv
<1>1. /\ \A f \in Field \ sUndone : sTold[f] # Page!NoValue => sProfile[f] = sTold[f]
      /\ ~sOptIn => sFiles \subseteq sUnseen \/ Page!Retention \in sUndone
  BY DEF Page!IndInv, Page!SettingsSayWhatIs
<1>p. \A s \in Req : /\ sRequest[s].step = "purge" => sFiles \subseteq sUnseen \union sRequest[s].todo \union sRequest[s].failed
                     /\ sRequest[s].step = "opt_out" => sFiles \subseteq sUnseen
  BY <1>0 DEF Page!PurgesKnowTheFiles, Page!At
<1>i. \A r \in Req : Page!Ends(r) => Holds(r, Page!Idle)
  BY <1>0, PageIdle, PageHolds DEF Page!Ends
\* A step that leaves the files and the flag as they are, and puts no request
\* to a purge.
<1>a. ASSUME NEW r \in Req, NEW q \in SRecord, Holds(r, q), q.step \notin {"purge", "opt_out"},
             UNCHANGED <<sOptIn, sFiles, sUnseen>>,
             sProfile' \in [Field -> SValue], sTold' \in [Field -> SValue],
             sUndone' \subseteq Field \union {Page!Retention},
             Page!Retention \in sUndone => Page!Retention \in sUndone',
             \A f \in Field \ sUndone' : sTold'[f] # Page!NoValue => sProfile'[f] = sTold'[f]
      PROVE  Page!IndInv'
  <2>1. sRequest' \in [Req -> SRecord]
    BY <1>a DEF Holds
  <2>2. Page!TypeOK'
    BY <1>a, <2>1, <1>0, PageTypesNext
  <2>3. Page!PurgesKnowTheFiles'
    BY <1>a, <1>0, PagePurges
  <2>4. Page!SettingsSayWhatIs'
    BY <1>a, <1>1 DEF Page!SettingsSayWhatIs
  <2> QED
    BY <2>2, <2>3, <2>4 DEF Page!IndInv
\* A step that touches no setting.
<1>b. ASSUME sRequest' \in [Req -> SRecord], Page!PurgesKnowTheFiles', sOptIn' \in BOOLEAN,
             sFiles' \subseteq File, sUnseen' \subseteq File, UNCHANGED <<sProfile, sTold, sUndone>>,
             ~sOptIn' => sFiles' \subseteq sUnseen' \/ Page!Retention \in sUndone
      PROVE  Page!IndInv'
  <2>1. Page!TypeOK'
    BY <1>b, <1>0, PageTypesNext
  <2>2. Page!SettingsSayWhatIs'
    BY <1>b, <1>1 DEF Page!SettingsSayWhatIs
  <2> QED
    BY <1>b, <2>1, <2>2 DEF Page!IndInv
<1>2. ASSUME NEW r \in Req, NEW f \in Field, NEW v \in Value, Page!Save(r, f, v) PROVE Page!IndInv'
  <2> DEFINE q == [Page!Idle EXCEPT !.step = "read_back", !.field = f, !.value = v]
  <2>1. /\ sProfile' = sProfile \/ sProfile' = [sProfile EXCEPT ![f] = v]
        /\ sTold' = [sTold EXCEPT ![f] = Page!NoValue]
        /\ sRequest' = [sRequest EXCEPT ![r] = q]
        /\ sUndone' = sUndone \ {f} /\ UNCHANGED <<sOptIn, sFiles, sUnseen>>
    BY <1>2 DEF Page!Save
  <2>2. q \in SRecord /\ q.step = "read_back"
    BY PageIdle DEF SRecord, SStep, SValue
  <2> HIDE DEF q
  <2>3. Holds(r, q)
    BY <2>1, <2>2, <1>0, PageHolds
  <2>4. sProfile' \in [Field -> SValue] /\ sTold' \in [Field -> SValue]
    BY <2>1, <1>0 DEF SValue
  <2>5. /\ sTold'[f] = Page!NoValue
        /\ \A g \in Field \ {f} : sTold'[g] = sTold[g] /\ sProfile'[g] = sProfile[g]
    BY <2>1, <1>0
  <2>6. \A g \in Field \ sUndone' : sTold'[g] # Page!NoValue => sProfile'[g] = sTold'[g]
    BY <2>1, <2>5, <1>1
  <2> QED
    BY <2>1, <2>2, <2>3, <2>4, <2>6, <1>0, <1>a, PageConstants
<1>3. ASSUME NEW r \in Req, Page!ReadBack(r) PROVE Page!IndInv'
  <2> DEFINE f == sRequest[r].field
  <2>1. /\ \/ sProfile[f] = sRequest[r].value /\ sTold' = [sTold EXCEPT ![f] = sProfile[f]]
           \/ sTold' = sTold
        /\ Page!Ends(r) /\ UNCHANGED <<sProfile, sOptIn, sFiles, sUnseen, sUndone>>
    BY <1>3 DEF Page!ReadBack
  <2>2. f \in Field
    BY <1>0 DEF SRecord
  <2> HIDE DEF f
  <2>3. sTold' \in [Field -> SValue] /\ \A g \in Field : sTold'[g] = sTold[g] \/ sTold'[g] = sProfile[g]
    BY <2>1, <2>2, <1>0
  <2>4. \A g \in Field \ sUndone' : sTold'[g] # Page!NoValue => sProfile'[g] = sTold'[g]
    BY <2>1, <2>3, <1>1
  <2> QED
    BY <2>1, <2>3, <2>4, <1>0, <1>i, <1>a, PageIdle
<1>4. ASSUME NEW f \in Field, NEW v \in Value, Page!SaveUnread(f, v) PROVE Page!IndInv'
  <2>1. /\ sProfile' = [sProfile EXCEPT ![f] = v] /\ sTold' = [sTold EXCEPT ![f] = Page!NoValue]
        /\ sUndone' = sUndone \ {f} /\ UNCHANGED <<sOptIn, sFiles, sUnseen, sRequest>>
    BY <1>4 DEF Page!SaveUnread
  <2>2. sProfile' \in [Field -> SValue] /\ sTold' \in [Field -> SValue]
    BY <2>1, <1>0 DEF SValue
  <2>3. Page!TypeOK'
    BY <2>1, <2>2, <1>0, PageTypesNext
  <2>4. Page!PurgesKnowTheFiles'
    BY <2>1, <1>0 DEF Page!PurgesKnowTheFiles, Page!At
  <2>5. /\ sTold'[f] = Page!NoValue
        /\ \A g \in Field \ {f} : sTold'[g] = sTold[g] /\ sProfile'[g] = sProfile[g]
    BY <2>1, <1>0
  <2>6. Page!SettingsSayWhatIs'
    BY <2>1, <2>5, <1>1, PageConstants DEF Page!SettingsSayWhatIs
  <2> QED
    BY <2>3, <2>4, <2>6 DEF Page!IndInv
<1>5. ASSUME NEW r \in Req, Page!OptIn(r) PROVE Page!IndInv'
  <2> DEFINE q == [sRequest[r] EXCEPT !.step = "opt_in"]
  <2>1. sRequest' = [sRequest EXCEPT ![r] = q] /\ UNCHANGED <<sProfile, sTold, sOptIn, sFiles, sUnseen, sUndone>>
    BY <1>5 DEF Page!OptIn
  <2>2. q \in SRecord /\ q.step = "opt_in"
    BY <1>0 DEF SRecord, SStep
  <2> HIDE DEF q
  <2>3. Holds(r, q)
    BY <2>1, <2>2, <1>0, PageHolds
  <2> QED
    BY <2>1, <2>2, <2>3, <1>0, <1>1, <1>a
<1>6. ASSUME NEW r \in Req, Page!List(r) PROVE Page!IndInv'
  <2>1. UNCHANGED <<sProfile, sTold, sOptIn, sFiles, sUndone>>
    BY <1>6 DEF Page!List
  <2>2. CASE sRequest' = [sRequest EXCEPT ![r].step = "purge", ![r].todo = sFiles] /\ UNCHANGED sUnseen
    <3> DEFINE q == [sRequest[r] EXCEPT !.step = "purge", !.todo = sFiles]
    <3>1. q \in SRecord /\ q.step = "purge" /\ q.todo = sFiles
      BY <1>0 DEF SRecord, SStep
    <3>2. sRequest' = [sRequest EXCEPT ![r] = q]
      BY <2>2
    <3> HIDE DEF q
    <3>3. Holds(r, q)
      BY <3>1, <3>2, <1>0, PageHolds
    <3>4. Page!PurgesKnowTheFiles' /\ sRequest' \in [Req -> SRecord]
      <4>1. Page!PurgesKnowTheFiles'
        BY <2>1, <2>2, <3>1, <3>3, <1>0, PagePurges
      <4> QED
        BY <3>3, <4>1 DEF Holds
    <3> QED
      BY <2>1, <2>2, <3>4, <1>0, <1>1, <1>b
  <2>3. CASE sRequest' = [sRequest EXCEPT ![r].step = "purge"] /\ sUnseen' = sUnseen \union sFiles
    <3> DEFINE q == [sRequest[r] EXCEPT !.step = "purge"]
    <3>1. q \in SRecord /\ q.step = "purge"
      BY <1>0 DEF SRecord, SStep
    <3>2. sRequest' = [sRequest EXCEPT ![r] = q]
      BY <2>3
    <3> HIDE DEF q
    <3>3. Holds(r, q)
      BY <3>1, <3>2, <1>0, PageHolds
    <3>4. Page!PurgesKnowTheFiles' /\ sRequest' \in [Req -> SRecord]
      <4>1. Page!PurgesKnowTheFiles'
        BY <2>1, <2>3, <3>1, <3>3, <1>0, PagePurges
      <4> QED
        BY <3>3, <4>1 DEF Holds
    <3>5. sFiles' \subseteq sUnseen' /\ sUnseen' \subseteq File
      BY <2>1, <2>3, <1>0
    <3> QED
      BY <2>1, <3>4, <3>5, <1>0, <1>b
  <2> QED
    BY <1>6, <2>2, <2>3 DEF Page!List
<1>7. ASSUME NEW r \in Req, NEW file \in File, Page!Delete(r, file) PROVE Page!IndInv'
  <2>1. sRequest[r].step = "purge" /\ UNCHANGED <<sProfile, sTold, sOptIn, sUndone>>
    BY <1>7 DEF Page!Delete, Page!At
  <2>2. CASE /\ sFiles' = sFiles \ {file} /\ sUnseen' = sUnseen \ {file}
             /\ sRequest' = [sRequest EXCEPT ![r].todo = sRequest[r].todo \ {file}]
    <3> DEFINE q == [sRequest[r] EXCEPT !.todo = sRequest[r].todo \ {file}]
    <3>1. /\ q \in SRecord /\ q.step = "purge" /\ q.todo = sRequest[r].todo \ {file}
          /\ q.failed = sRequest[r].failed
      BY <1>0, <2>1 DEF SRecord, SStep
    <3>2. sRequest' = [sRequest EXCEPT ![r] = q]
      BY <2>2
    <3> HIDE DEF q
    <3>3. Holds(r, q)
      BY <3>1, <3>2, <1>0, PageHolds
    <3>4. ASSUME NEW s \in Req
          PROVE  /\ sRequest'[s].step = "purge" => sFiles' \subseteq sUnseen' \union sRequest'[s].todo \union sRequest'[s].failed
                 /\ sRequest'[s].step = "opt_out" => sFiles' \subseteq sUnseen'
      <4>1. CASE s = r
        BY <4>1, <2>1, <2>2, <3>1, <3>3, <1>p DEF Holds
      <4>2. CASE s # r
        BY <4>2, <2>2, <3>3, <1>p DEF Holds
      <4> QED
        BY <4>1, <4>2
    <3>5. Page!PurgesKnowTheFiles' /\ sRequest' \in [Req -> SRecord]
      BY <3>3, <3>4 DEF Page!PurgesKnowTheFiles, Page!At, Holds
    <3>6. sFiles' \subseteq File /\ sUnseen' \subseteq File /\ (sFiles \subseteq sUnseen => sFiles' \subseteq sUnseen')
      BY <2>2, <1>0
    <3> QED
      BY <2>1, <3>5, <3>6, <1>0, <1>1, <1>b
  <2>3. CASE /\ UNCHANGED <<sFiles, sUnseen>>
             /\ sRequest' = [sRequest EXCEPT ![r].todo = sRequest[r].todo \ {file},
                                             ![r].failed = sRequest[r].failed \union {file}]
    <3> DEFINE q == [sRequest[r] EXCEPT !.todo = sRequest[r].todo \ {file}, !.failed = sRequest[r].failed \union {file}]
    <3>1. /\ q \in SRecord /\ q.step = "purge" /\ q.todo = sRequest[r].todo \ {file}
          /\ q.failed = sRequest[r].failed \union {file}
      BY <1>0, <2>1 DEF SRecord, SStep
    <3>2. sRequest' = [sRequest EXCEPT ![r] = q]
      BY <2>3
    <3> HIDE DEF q
    <3>3. Holds(r, q)
      BY <3>1, <3>2, <1>0, PageHolds
    <3>4. sFiles \subseteq sUnseen \union q.todo \union q.failed
      BY <2>1, <3>1, <1>p
    <3>5. Page!PurgesKnowTheFiles' /\ sRequest' \in [Req -> SRecord]
      <4>1. Page!PurgesKnowTheFiles'
        BY <2>3, <3>1, <3>3, <3>4, <1>0, PagePurges
      <4> QED
        BY <3>3, <4>1 DEF Holds
    <3> QED
      BY <2>1, <2>3, <3>5, <1>0, <1>1, <1>b
  <2> QED
    BY <1>7, <2>2, <2>3 DEF Page!Delete
<1>8. ASSUME NEW r \in Req, Page!Purged(r) PROVE Page!IndInv'
  <2> DEFINE next == IF Page!Complete(r) THEN "opt_out" ELSE "opt_in"
             q == [Page!Idle EXCEPT !.step = next]
  <2>1. /\ sRequest[r].step = "purge" /\ sRequest[r].todo = {} /\ sRequest' = [sRequest EXCEPT ![r] = q]
        /\ UNCHANGED <<sProfile, sTold, sOptIn, sFiles, sUnseen, sUndone>>
    BY <1>8 DEF Page!Purged, Page!At
  <2>2. /\ q \in SRecord /\ q.step = next /\ next \in {"opt_out", "opt_in"}
    BY PageIdle DEF SRecord, SStep
  <2>3. next = "opt_out" => sFiles \subseteq sUnseen
    BY <2>1, <1>p DEF Page!Complete
  <2> HIDE DEF q, next
  <2>4. Holds(r, q)
    BY <2>1, <2>2, <1>0, PageHolds
  <2>5. Page!PurgesKnowTheFiles' /\ sRequest' \in [Req -> SRecord]
    <3>1. Page!PurgesKnowTheFiles'
      BY <2>1, <2>2, <2>3, <2>4, <1>0, PagePurges
    <3> QED
      BY <2>4, <3>1 DEF Holds
  <2> QED
    BY <2>1, <2>5, <1>0, <1>1, <1>b
<1>9. ASSUME NEW r \in Req, Page!SaveFlag(r) PROVE Page!IndInv'
  <2>1. /\ sRequest[r].step = "opt_in" \/ sRequest[r].step = "opt_out"
        /\ sOptIn' = sOptIn \/ sOptIn' = (sRequest[r].step = "opt_in")
        /\ Page!Ends(r) /\ UNCHANGED <<sProfile, sTold, sFiles, sUnseen, sUndone>>
    BY <1>9 DEF Page!SaveFlag, Page!At
  <2>2. sOptIn' \in BOOLEAN
    BY <2>1, <1>0
  <2>3. ~sOptIn' => sFiles \subseteq sUnseen \/ Page!Retention \in sUndone
    BY <2>1, <1>1, <1>p
  <2>4. Page!PurgesKnowTheFiles' /\ sRequest' \in [Req -> SRecord]
    <3>1. Holds(r, Page!Idle)
      BY <2>1, <1>i
    <3>2. Page!PurgesKnowTheFiles'
      BY <2>1, <3>1, <1>0, PagePurges, PageIdle
    <3> QED
      BY <3>1, <3>2 DEF Holds
  <2> QED
    BY <2>1, <2>2, <2>3, <2>4, <1>0, <1>b
<1>10. ASSUME NEW file \in File, Page!Upload(file) PROVE Page!IndInv'
  <2> DEFINE busy == \E r \in Req : Page!At(r, "purge") \/ Page!At(r, "opt_out")
  <2>1. /\ sOptIn /\ sFiles' = sFiles \union {file}
        /\ sUnseen' = sUnseen \union {f \in {file} : busy}
        /\ UNCHANGED <<sProfile, sTold, sOptIn, sRequest, sUndone>>
    BY <1>10 DEF Page!Upload
  <2>2. ASSUME NEW s \in Req
        PROVE  /\ sRequest[s].step = "purge" => sFiles' \subseteq sUnseen' \union sRequest[s].todo \union sRequest[s].failed
               /\ sRequest[s].step = "opt_out" => sFiles' \subseteq sUnseen'
    <3>1. sRequest[s].step \in {"purge", "opt_out"} => busy
      BY DEF Page!At
    <3> QED
      BY <2>1, <3>1, <1>p
  <2>3. Page!PurgesKnowTheFiles'
    BY <2>1, <2>2 DEF Page!PurgesKnowTheFiles, Page!At
  <2> HIDE DEF busy
  <2>4. sFiles' \subseteq File /\ sUnseen' \subseteq File
    BY <2>1, <1>0
  <2> QED
    BY <2>1, <2>3, <2>4, <1>0, <1>b
<1>11. ASSUME NEW r \in Req, Page!ReadToFix(r) PROVE Page!IndInv'
  <2> DEFINE q == [Page!Idle EXCEPT !.step = "fix", !.profile = sProfile, !.optIn = sOptIn]
  <2>1. sRequest' = [sRequest EXCEPT ![r] = q] /\ UNCHANGED <<sProfile, sTold, sOptIn, sFiles, sUnseen, sUndone>>
    BY <1>11 DEF Page!ReadToFix
  <2>2. q \in SRecord /\ q.step = "fix"
    BY PageIdle, <1>0 DEF SRecord, SStep
  <2> HIDE DEF q
  <2>3. Holds(r, q)
    BY <2>1, <2>2, <1>0, PageHolds
  <2> QED
    BY <2>1, <2>2, <2>3, <1>0, <1>1, <1>a
<1>12. ASSUME NEW r \in Req, Page!WriteFix(r) PROVE Page!IndInv'
  <2> DEFINE was == sRequest[r]
  <2>1. Page!Ends(r) /\ UNCHANGED <<sTold, sFiles, sUnseen>>
    BY <1>12 DEF Page!WriteFix
  <2>2. CASE UNCHANGED <<sProfile, sOptIn, sUndone>>
    BY <2>1, <2>2, <1>0, <1>1, <1>i, <1>a, PageIdle
  <2>3. CASE /\ sProfile' = was.profile /\ sOptIn' = was.optIn
             /\ sUndone' = (sUndone \union {f \in Field : sProfile[f] # was.profile[f]})
                                  \union {s \in {Page!Retention} : sOptIn # was.optIn}
    <3>1. sProfile' \in [Field -> SValue] /\ sOptIn' \in BOOLEAN
      BY <2>3, <1>0 DEF SRecord
    <3>2. sUndone' \subseteq Field \union {Page!Retention}
      BY <2>3, <1>0
    <3>3. \A f \in Field \ sUndone' : f \notin sUndone /\ sProfile'[f] = sProfile[f]
      BY <2>3
    <3>4. Holds(r, Page!Idle)
      BY <2>1, <1>i
    <3>5. sRequest' \in [Req -> SRecord] /\ Page!PurgesKnowTheFiles'
      <4>1. Page!PurgesKnowTheFiles'
        BY <2>1, <3>4, <1>0, PagePurges, PageIdle
      <4> QED
        BY <3>4, <4>1 DEF Holds
    <3>6. Page!TypeOK'
      BY <2>1, <3>1, <3>2, <3>5, <1>0, PageTypesNext
    <3>7. sOptIn' = sOptIn \/ Page!Retention \in sUndone'
      BY <2>3
    <3>8. Page!Retention \in sUndone => Page!Retention \in sUndone'
      BY <2>3
    <3>9. ~sOptIn' => sFiles' \subseteq sUnseen' \/ Page!Retention \in sUndone'
      BY <2>1, <3>7, <3>8, <1>1
    <3>10. Page!SettingsSayWhatIs'
      BY <2>1, <3>3, <3>9, <1>1 DEF Page!SettingsSayWhatIs
    <3> QED
      BY <3>5, <3>6, <3>10 DEF Page!IndInv
  <2> QED
    BY <1>12, <2>2, <2>3 DEF Page!WriteFix
<1>13. CASE UNCHANGED Page!vars
  <2>1. UNCHANGED <<sProfile, sTold, sOptIn, sFiles, sUnseen, sRequest, sUndone>>
    BY <1>13 DEF Page!vars
  <2>2. Page!PurgesKnowTheFiles'
    BY <2>1, <1>0 DEF Page!PurgesKnowTheFiles, Page!At
  <2> QED
    BY <2>1, <2>2, <1>0, <1>1, <1>b
<1>14. CASE Page!Next
  BY <1>14, <1>2, <1>3, <1>4, <1>5, <1>6, <1>7, <1>8, <1>9, <1>10, <1>11, <1>12 DEF Page!Next
<1> QED
  BY <1>13, <1>14

\* The inductive invariant of the settings page always holds, whatever handlers run.
THEOREM PageInductive == DeskSpec => []Page!IndInv
<1>1. DeskInit => Page!IndInv
  BY PageInit
<1>2. Page!IndInv /\ [DeskNext]_everything => Page!IndInv'
  BY PageNext, PageStep
<1> QED
  BY <1>1, <1>2, PTL DEF DeskSpec

\* Saved settings are what the user was told, and resumes are kept only under an
\* opt-in, but for what a request that overlapped undid (put_targets,
\* set_retention).
THEOREM SettingsAreSaved == DeskSpec => []SettingsSayWhatIs
<1>1. Page!IndInv => SettingsSayWhatIs
  BY DEF Page!IndInv, SettingsSayWhatIs
<1> QED
  BY <1>1, PageInductive, PTL

-----------------------------------------------------------------------------
(* Referral codes.  A stored code never changes, and what a page is about to*)
(* hand out is one.                                                        *)

\* A step of the desk is a step of the referral codes, or leaves their variables alone.
LEMMA CodesStep == [DeskNext]_everything => [Codes!Next]_(Codes!vars)
BY DEF DeskNext, OthersWait, Off, everything, codes, Codes!vars

\* What the referral codes take for granted of their constants.
LEMMA CodesConstants == Codes!NoCode \notin Code /\ "none" \notin Code /\ "unavailable" \notin Code
BY DeskAssumption

\* The inductive invariant of the referral codes holds at the start.
LEMMA CodesInit == DeskInit => Codes!IndInv
<1> SUFFICES ASSUME Codes!Init PROVE Codes!IndInv
  BY DEF DeskInit
<1>1. (CHOOSE u \in User : TRUE) \in User
  BY DeskAssumption
<1>2. Codes!TypeOK
  BY <1>1 DEF Codes!Init, Codes!TypeOK, Codes!Step
<1>3. Codes!AboutToHandOutStored /\ Codes!HandedCodeIsStored
  BY CodesConstants DEF Codes!Init, Codes!AboutToHandOutStored, Codes!HandedCodeIsStored
<1> QED
  BY <1>2, <1>3 DEF Codes!IndInv

\* A stored code never changes.
LEMMA StoredCodeStays ==
    ASSUME Codes!TypeOK, [Codes!Next]_(Codes!vars)
    PROVE  /\ cCode' \in [User -> Code \union {Codes!NoCode}]
           /\ \A u \in User : cCode[u] # Codes!NoCode => cCode'[u] = cCode[u]
<1>0. cCode \in [User -> Code \union {Codes!NoCode}] /\ cWho \in [Req -> User]
  BY DEF Codes!TypeOK
<1>1. ASSUME UNCHANGED cCode
      PROVE  /\ cCode' \in [User -> Code \union {Codes!NoCode}]
             /\ \A u \in User : cCode[u] # Codes!NoCode => cCode'[u] = cCode[u]
  BY <1>0, <1>1
<1>2. ASSUME NEW r \in Req, NEW c \in Code, Codes!CanInsert(cWho[r], c),
             cCode' = [cCode EXCEPT ![cWho[r]] = c]
      PROVE  /\ cCode' \in [User -> Code \union {Codes!NoCode}]
             /\ \A u \in User : cCode[u] # Codes!NoCode => cCode'[u] = cCode[u]
  BY <1>0, <1>2 DEF Codes!CanInsert
<1>3. CASE Codes!Next
  <2>1. ASSUME NEW r \in Req, NEW u \in User, Codes!OpenPage(r, u) PROVE UNCHANGED cCode
    BY <2>1 DEF Codes!OpenPage
  <2>2. ASSUME NEW r \in Req, Codes!Read(r) \/ Codes!Reread(r) \/ Codes!Summary(r) \/ Codes!ReadFails(r) \/ Codes!Crash(r)
        PROVE  UNCHANGED cCode
    BY <2>2 DEF Codes!Read, Codes!Reread, Codes!Summary, Codes!ReadFails, Codes!Crash
  <2>3. ASSUME NEW r \in Req, Codes!Insert(r) \/ Codes!InsertFails(r)
        PROVE  \/ UNCHANGED cCode
               \/ \E c \in Code : Codes!CanInsert(cWho[r], c) /\ cCode' = [cCode EXCEPT ![cWho[r]] = c]
    BY <2>3 DEF Codes!Insert, Codes!InsertFails
  <2> QED
    BY <1>1, <1>2, <1>3, <2>1, <2>2, <2>3 DEF Codes!Next, Codes!Serve
<1>4. CASE UNCHANGED Codes!vars
  BY <1>1, <1>4 DEF Codes!vars
<1> QED
  BY <1>3, <1>4

\* What one page read does to what it holds and hands out.
PageOf(r) ==
    /\ \A s \in Req \ {r} : cPc'[s] = cPc[s] /\ cWho'[s] = cWho[s] /\ cMine'[s] = cMine[s]
                            /\ cAnswer'[s] = cAnswer[s]
    /\ cPc' \in [Req -> Codes!Step] /\ cWho' \in [Req -> User]
    /\ cMine' \in [Req -> Code \union {Codes!NoCode}]
    /\ cAnswer' \in [Req -> Code \union {"none", "unavailable"}]
    /\ \/ cPc'[r] # "summary"
       \/ cMine'[r] # Codes!NoCode /\ cCode'[cWho'[r]] = cMine'[r]
    /\ \/ cAnswer'[r] \notin Code
       \/ cAnswer'[r] = cAnswer[r] /\ cWho'[r] = cWho[r]
       \/ cPc[r] = "summary" /\ cAnswer'[r] = cMine[r] /\ cWho'[r] = cWho[r]

\* A page answers with a code, or without.
LEMMA CodesPage ==
    ASSUME Codes!IndInv, NEW r \in Req, Codes!Serve(r) \/ \E u \in User : Codes!OpenPage(r, u)
    PROVE  PageOf(r)
<1>0. /\ cCode \in [User -> Code \union {Codes!NoCode}] /\ cPc \in [Req -> Codes!Step]
      /\ cWho \in [Req -> User] /\ cMine \in [Req -> Code \union {Codes!NoCode}]
      /\ cAnswer \in [Req -> Code \union {"none", "unavailable"}]
  BY DEF Codes!IndInv, Codes!TypeOK
<1>1. ASSUME NEW u \in User, Codes!OpenPage(r, u) PROVE PageOf(r)
  BY <1>0, <1>1, CodesConstants DEF Codes!OpenPage, PageOf, Codes!Step
<1>h. ASSUME NEW c \in Code \union {Codes!NoCode}, c # Codes!NoCode, Codes!HandOver(r, c), cCode'[cWho[r]] = c, cWho' = cWho
      PROVE  PageOf(r)
  BY <1>0, <1>h DEF Codes!HandOver, PageOf, Codes!Step
<1>g. ASSUME NEW step \in {"insert", "reread"}, Codes!Goto(r, step), cWho' = cWho
      PROVE  PageOf(r)
  BY <1>0, <1>g DEF Codes!Goto, PageOf, Codes!Step
<1>r. ASSUME NEW a \in {"none", "unavailable"}, Codes!Return(r, a), cWho' = cWho
      PROVE  PageOf(r)
  BY <1>0, <1>r, CodesConstants DEF Codes!Return, PageOf, Codes!Step
<1>2. CASE Codes!Read(r) \/ Codes!Reread(r)
  <2>1. cCode[cWho[r]] \in Code \union {Codes!NoCode} /\ UNCHANGED <<cCode, cWho>>
    BY <1>0, <1>2 DEF Codes!Read, Codes!Reread
  <2>2. CASE cCode[cWho[r]] # Codes!NoCode
    <3>1. Codes!HandOver(r, cCode[cWho[r]])
      BY <1>2, <2>2 DEF Codes!Read, Codes!Reread
    <3> QED
      BY <2>1, <2>2, <3>1, <1>h
  <2>3. CASE cCode[cWho[r]] = Codes!NoCode
    <3>1. Codes!Goto(r, "insert") \/ Codes!Return(r, "unavailable")
      BY <1>2, <2>3 DEF Codes!Read, Codes!Reread
    <3> QED
      BY <2>1, <3>1, <1>g, <1>r
  <2> QED
    BY <2>2, <2>3
<1>3. CASE Codes!Insert(r)
  <2>1. cWho' = cWho
    BY <1>3 DEF Codes!Insert
  <2>2. PICK c \in Code :
          IF Codes!CanInsert(cWho[r], c)
          THEN cCode' = [cCode EXCEPT ![cWho[r]] = c] /\ Codes!HandOver(r, c)
          ELSE Codes!Goto(r, "reread") /\ UNCHANGED cCode
    BY <1>3 DEF Codes!Insert
  <2>3. CASE Codes!CanInsert(cWho[r], c)
    <3>1. cCode'[cWho[r]] = c /\ Codes!HandOver(r, c) /\ c # Codes!NoCode
      BY <1>0, <2>2, <2>3, CodesConstants
    <3> QED
      BY <2>1, <3>1, <1>h
  <2>4. CASE ~Codes!CanInsert(cWho[r], c)
    BY <2>1, <2>2, <2>4, <1>g
  <2> QED
    BY <2>3, <2>4
<1>4. CASE Codes!InsertFails(r) \/ Codes!ReadFails(r) \/ Codes!Crash(r)
  <2>1. cWho' = cWho /\ (Codes!Return(r, "unavailable") \/ Codes!Return(r, "none"))
    BY <1>4 DEF Codes!InsertFails, Codes!ReadFails, Codes!Crash
  <2> QED
    BY <2>1, <1>r
<1>5. CASE Codes!Summary(r)
  <2>1. cPc[r] = "summary" /\ Codes!Return(r, cMine[r]) /\ cWho' = cWho
    BY <1>5 DEF Codes!Summary
  <2>2. cMine[r] \in Code
    BY <1>0, <2>1 DEF Codes!IndInv, Codes!AboutToHandOutStored
  <2> QED
    BY <1>0, <2>1, <2>2 DEF Codes!Return, PageOf, Codes!Step
<1> QED
  BY <1>1, <1>2, <1>3, <1>4, <1>5 DEF Codes!Serve

\* Every step of the referral codes preserves the inductive invariant, one step of the proof
\* per action.
LEMMA CodesNext ==
    ASSUME Codes!IndInv, [Codes!Next]_(Codes!vars)
    PROVE  Codes!IndInv'
<1>0. /\ cCode \in [User -> Code \union {Codes!NoCode}] /\ cPc \in [Req -> Codes!Step]
      /\ cWho \in [Req -> User] /\ cMine \in [Req -> Code \union {Codes!NoCode}]
      /\ cAnswer \in [Req -> Code \union {"none", "unavailable"}]
  BY DEF Codes!IndInv, Codes!TypeOK
<1>1. /\ cCode' \in [User -> Code \union {Codes!NoCode}]
      /\ \A u \in User : cCode[u] # Codes!NoCode => cCode'[u] = cCode[u]
  BY StoredCodeStays DEF Codes!IndInv
<1>2. \A s \in Req : /\ cPc[s] = "summary" => cMine[s] # Codes!NoCode /\ cCode[cWho[s]] = cMine[s]
                     /\ cAnswer[s] \in Code => cCode[cWho[s]] = cAnswer[s]
  BY DEF Codes!IndInv, Codes!AboutToHandOutStored, Codes!HandedCodeIsStored
<1>3. ASSUME NEW r \in Req, PageOf(r) PROVE Codes!IndInv'
  <2>1. Codes!TypeOK'
    BY <1>1, <1>3 DEF Codes!TypeOK, PageOf
  <2>2. ASSUME NEW s \in Req
        PROVE  /\ cPc'[s] = "summary" => cMine'[s] # Codes!NoCode /\ cCode'[cWho'[s]] = cMine'[s]
               /\ cAnswer'[s] \in Code => cCode'[cWho'[s]] = cAnswer'[s]
    <3>1. CASE s # r
      BY <1>0, <1>1, <1>2, <1>3, <3>1, CodesConstants DEF PageOf
    <3>2. CASE s = r
      BY <1>0, <1>1, <1>2, <1>3, <3>2, CodesConstants DEF PageOf
    <3> QED
      BY <3>1, <3>2
  <2>3. Codes!AboutToHandOutStored' /\ Codes!HandedCodeIsStored'
    BY <2>2 DEF Codes!AboutToHandOutStored, Codes!HandedCodeIsStored
  <2> QED
    BY <2>1, <2>3 DEF Codes!IndInv
<1>4. CASE Codes!Next
  <2>1. PICK r \in Req : Codes!Serve(r) \/ \E u \in User : Codes!OpenPage(r, u)
    BY <1>4 DEF Codes!Next
  <2> QED
    BY <2>1, <1>3, CodesPage
<1>5. CASE UNCHANGED Codes!vars
  BY <1>5 DEF Codes!vars, Codes!IndInv, Codes!TypeOK, Codes!AboutToHandOutStored, Codes!HandedCodeIsStored
<1> QED
  BY <1>4, <1>5

\* The inductive invariant of the referral codes always holds, whatever handlers run.
THEOREM CodesInductive == DeskSpec => []Codes!IndInv
<1>1. DeskInit => Codes!IndInv
  BY CodesInit
<1>2. Codes!IndInv /\ [DeskNext]_everything => Codes!IndInv'
  BY CodesNext, CodesStep
<1> QED
  BY <1>1, <1>2, PTL DEF DeskSpec

\* A code that was handed out is stored for its user (code_for reads back what
\* it wrote, and a code is never overwritten).
THEOREM HandedCodesAreStored == DeskSpec => []HandedCodeIsStored
<1>1. Codes!IndInv => HandedCodeIsStored
  BY DEF Codes!IndInv, HandedCodeIsStored
<1> QED
  BY <1>1, CodesInductive, PTL

-----------------------------------------------------------------------------
(* Today and the thread.  What a client was told stands until the rung is  *)
(* decided again, so a page that reads the decisions hides it.             *)

\* A step of the desk is a step of Today and the thread, or leaves their variables alone.
LEMMA ThreadStep == [DeskNext]_everything => [Thread!Next]_(Thread!vars)
BY DEF DeskNext, OthersWait, Off, everything, thread, Thread!vars

YRow == [decision : {"none", "dismissed", "snoozed"}, until : 0 .. ThreadDays + SnoozeFor]
YRecord == [step : {"idle", "today", "thread", "read_back"}, key : Thread!Rung,
            now : 0 .. ThreadDays, seen : SUBSET Thread!Fact]
YPage == [page : {"none", "today", "thread"}, primary : Thread!Rung, items : SUBSET Thread!Rung,
          readable : BOOLEAN, now : 0 .. ThreadDays, seen : SUBSET Thread!Fact]

\* The types of Today and the thread, each as one set.
LEMMA ThreadTypes ==
    Thread!TypeOK <=>
        /\ yDay \in 0 .. ThreadDays /\ yFacts \in SUBSET Thread!Fact
        /\ yDecided \in [Thread!Rung -> YRow] /\ yTold \in [Thread!Rung -> YRow]
        /\ yRequest \in [Req -> YRecord] /\ yShown \in YPage
BY DEF Thread!TypeOK, Thread!Row, YRow, YRecord, YPage

\* The same, for the next state.
LEMMA ThreadTypesNext ==
    /\ yDay' \in 0 .. ThreadDays /\ yFacts' \in SUBSET Thread!Fact
    /\ yDecided' \in [Thread!Rung -> YRow] /\ yTold' \in [Thread!Rung -> YRow]
    /\ yRequest' \in [Req -> YRecord] /\ yShown' \in YPage
    => Thread!TypeOK'
BY DEF Thread!TypeOK, Thread!Row, YRow, YRecord, YPage

\* What Today and the thread take for granted of their constants.
LEMMA ThreadConstants ==
    /\ ThreadDays \in Nat /\ SnoozeFor \in Nat
    /\ Answerable \subseteq Thread!Rung /\ Situations \subseteq SUBSET Thread!Fact
BY DeskAssumption

\* The rungs have ranks.
LEMMA Rungs ==
    /\ Thread!Fallback \in Thread!Rung
    /\ \A k \in Thread!Rung : Thread!Rank[k] \in Nat
BY DEF Thread!Fallback, Thread!Rung, Thread!Rank

\* The values Today and the thread start from have their types.
LEMMA ThreadIdle ==
    /\ Thread!Idle \in YRecord /\ Thread!Idle.step = "idle"
    /\ Thread!NoRow \in YRow /\ Thread!NoRow.decision = "none"
    /\ Thread!Nothing \in YPage /\ Thread!Nothing.page = "none"
<1>1. 0 \in 0 .. ThreadDays /\ 0 \in 0 .. ThreadDays + SnoozeFor
  BY ThreadConstants
<1> QED
  BY <1>1, Rungs DEF Thread!Idle, YRecord, Thread!NoRow, YRow, Thread!Nothing, YPage

\* A ladder is never empty (choose: or the fallback).
LEMMA LadderIsNotEmpty ==
    ASSUME NEW seen
    PROVE  Thread!Ladder(seen) \in SUBSET Thread!Rung /\ Thread!Ladder(seen) # {}
BY Rungs DEF Thread!Ladder

\* The first rung of a ladder is one of its rungs.
LEMMA FirstIsListed ==
    ASSUME NEW S \in SUBSET Thread!Rung, S # {}
    PROVE  Thread!First(S) \in S
<1> DEFINE ranks == {Thread!Rank[k] : k \in S}
<1>1. ranks \in SUBSET Nat /\ ranks # {}
  BY Rungs
<1> HIDE DEF ranks
<1>2. PICK x \in ranks : \A y \in ranks : x <= y
  BY <1>1, Least
<1>3. PICK k \in S : Thread!Rank[k] = x
  BY <1>2 DEF ranks
<1>4. \A l \in S : Thread!Rank[k] <= Thread!Rank[l]
  BY <1>2, <1>3 DEF ranks
<1> QED
  BY <1>4 DEF Thread!First

\* The inductive invariant of Today and the thread holds at the start.
LEMMA ThreadInit == DeskInit => Thread!IndInv
<1> SUFFICES ASSUME Thread!Init PROVE Thread!IndInv
  BY DEF DeskInit
<1>1. 0 \in 0 .. ThreadDays
  BY ThreadConstants
<1>2. Thread!TypeOK
  BY <1>1, ThreadConstants, ThreadIdle, ThreadTypes DEF Thread!Init
<1>3. Thread!ToldIsDecided /\ Thread!PutAwayStaysAway
  BY ThreadIdle DEF Thread!Init, Thread!ToldIsDecided, Thread!PutAwayStaysAway
<1> QED
  BY <1>2, <1>3 DEF Thread!IndInv

\* Every step of Today and the thread preserves the inductive invariant, one step of the proof
\* per action.
LEMMA ThreadNext ==
    ASSUME Thread!IndInv, [Thread!Next]_(Thread!vars)
    PROVE  Thread!IndInv'
<1>0. /\ yDay \in 0 .. ThreadDays /\ yFacts \in SUBSET Thread!Fact
      /\ yDecided \in [Thread!Rung -> YRow] /\ yTold \in [Thread!Rung -> YRow]
      /\ yRequest \in [Req -> YRecord] /\ yShown \in YPage
  BY ThreadTypes DEF Thread!IndInv
<1>1. Thread!ToldIsDecided
  BY DEF Thread!IndInv
\* A step after which no page is shown has nothing to say about one.
<1>a. ASSUME yShown' = Thread!Nothing, Thread!ToldIsDecided',
             yDay' \in 0 .. ThreadDays, yFacts' \in SUBSET Thread!Fact,
             yDecided' \in [Thread!Rung -> YRow], yTold' \in [Thread!Rung -> YRow],
             yRequest' \in [Req -> YRecord]
      PROVE  Thread!IndInv'
  <2>1. Thread!TypeOK'
    BY <1>a, ThreadTypesNext, ThreadIdle
  <2>2. Thread!PutAwayStaysAway'
    BY <1>a, ThreadIdle DEF Thread!PutAwayStaysAway
  <2> QED
    BY <1>a, <2>1, <2>2 DEF Thread!IndInv
<1>b. ASSUME UNCHANGED <<yDecided, yTold>> PROVE Thread!ToldIsDecided'
  BY <1>1, <1>b DEF Thread!ToldIsDecided
<1>c. ASSUME NEW r \in Req, NEW q \in YRecord, yRequest' = [yRequest EXCEPT ![r] = q]
      PROVE  yRequest' \in [Req -> YRecord]
  BY <1>0, <1>c
<1>2. ASSUME NEW r \in Req, NEW page \in {"today", "thread"}, Thread!View(r, page) PROVE Thread!IndInv'
  <2>1. PICK seen \in Thread!Readings :
            yRequest' = [yRequest EXCEPT ![r] = [Thread!Idle EXCEPT !.step = page, !.now = yDay, !.seen = seen]]
    BY <1>2 DEF Thread!View
  <2>2. yShown' = Thread!Nothing /\ UNCHANGED <<yDay, yFacts, yDecided, yTold>>
    BY <1>2 DEF Thread!View
  <2>3. seen \in SUBSET Thread!Fact
    BY <2>1, <1>0 DEF Thread!Readings
  <2>4. [Thread!Idle EXCEPT !.step = page, !.now = yDay, !.seen = seen] \in YRecord
    BY <2>3, <1>0, ThreadIdle DEF YRecord
  <2> QED
    BY <2>1, <2>2, <2>4, <1>0, <1>a, <1>b, <1>c
<1>3. ASSUME NEW r \in Req, Thread!Answer(r) PROVE Thread!IndInv'
  <2> DEFINE req == yRequest[r]
             ladder == Thread!Ladder(req.seen)
             first == Thread!First(ladder)
             listed == IF req.step = "today" THEN ladder \ {first} ELSE ladder
             left == Thread!Surviving(listed, yDecided, req.now)
  <2>1. PICK readable \in BOOLEAN :
            yShown' = [page |-> req.step, primary |-> first, readable |-> readable,
                       items |-> IF readable THEN left ELSE listed,
                       now |-> req.now, seen |-> req.seen]
    BY <1>3 DEF Thread!Answer
  <2>2. /\ req.step \in {"today", "thread"} /\ yRequest' = [yRequest EXCEPT ![r] = Thread!Idle]
        /\ UNCHANGED <<yDay, yFacts, yDecided, yTold>>
    BY <1>3 DEF Thread!Answer, Thread!At, Thread!Ends
  <2>3. req \in YRecord /\ req.now \in 0 .. ThreadDays /\ req.seen \in SUBSET Thread!Fact
    BY <1>0 DEF YRecord
  <2>4. ladder \in SUBSET Thread!Rung /\ first \in ladder
    BY LadderIsNotEmpty, FirstIsListed
  <2>5. left = {k \in listed : ~Thread!IsSuppressed(yDecided[k], req.now)}
    BY DEF Thread!Surviving
  <2>6. listed = ladder \ {k \in {first} : req.step = "today"}
    OBVIOUS
  <2>h. \A k \in listed :
            Thread!IsSuppressed(yDecided[k], req.now)
            <=> \/ yDecided[k].decision = "dismissed"
                \/ yDecided[k].decision = "snoozed" /\ ~(yDecided[k].until <= req.now)
    <3> SUFFICES ASSUME NEW k \in listed
                 PROVE  yDecided[k].until > req.now <=> ~(yDecided[k].until <= req.now)
      BY DEF Thread!IsSuppressed
    <3>1. yDecided[k].until \in Int /\ req.now \in Int
      BY <1>0, <2>3, <2>4 DEF YRow
    <3> QED
      BY <3>1
  <2> HIDE DEF ladder, first, listed, left, req
  <2>7. listed \in SUBSET Thread!Rung /\ left \subseteq listed /\ first \in Thread!Rung
    BY <2>4, <2>5, <2>6
  <2>8. /\ yShown'.page = req.step /\ yShown'.primary = first /\ yShown'.readable = readable
        /\ yShown'.items = (IF readable THEN left ELSE listed)
        /\ yShown'.now = req.now /\ yShown'.seen = req.seen
    BY <2>1
  <2>9. yShown' \in YPage
    <3>1. req.step \in {"none", "today", "thread"} /\ (IF readable THEN left ELSE listed) \in SUBSET Thread!Rung
      BY <2>2, <2>7
    <3> QED
      BY <3>1, <2>1, <2>3, <2>7 DEF YPage
  <2>10. Thread!TypeOK'
    BY <2>2, <2>9, <1>0, <1>c, ThreadIdle, ThreadTypesNext
  <2>11. Thread!ToldIsDecided'
    BY <2>2, <1>b
  <2>12. Thread!PutAwayStaysAway'
    <3>1. yShown'.items \subseteq listed
      BY <2>7, <2>8
    <3>2. \A k \in listed \ yShown'.items :
            yShown'.readable /\ \/ yDecided'[k].decision = "dismissed"
                                \/ yDecided'[k].decision = "snoozed" /\ ~(yDecided'[k].until <= yShown'.now)
      BY <2>2, <2>5, <2>8, <2>h
    <3>3. \A k \in yShown'.items :
            ~(yShown'.readable /\ \/ yTold'[k].decision = "dismissed"
                                  \/ yTold'[k].decision = "snoozed" /\ ~(yTold'[k].until <= yShown'.now))
      <4> SUFFICES ASSUME NEW k \in yShown'.items, yShown'.readable
                   PROVE  ~ \/ yTold[k].decision = "dismissed"
                            \/ yTold[k].decision = "snoozed" /\ ~(yTold[k].until <= yShown'.now)
        BY <2>2
      <4>1. k \in left /\ k \in listed /\ k \in Thread!Rung
        BY <2>7, <2>8
      <4>2. ~Thread!IsSuppressed(yDecided[k], req.now)
        BY <4>1, <2>5
      <4>3. CASE yTold[k] = Thread!NoRow
        BY <4>3, ThreadIdle
      <4>4. CASE yTold[k] # Thread!NoRow
        <5>1. yTold[k] = yDecided[k]
          BY <4>1, <4>4, <1>1 DEF Thread!ToldIsDecided
        <5> QED
          BY <4>1, <4>2, <5>1, <2>8, <2>h
      <4> QED
        BY <4>3, <4>4
    <3>4. listed = Thread!Ladder(yShown'.seen) \ {k \in {yShown'.primary} : yShown'.page = "today"}
      BY <2>6, <2>8 DEF ladder
    <3> HIDE DEF ladder
    <3> QED
      BY <3>1, <3>2, <3>3, <3>4 DEF Thread!PutAwayStaysAway
  <2> QED
    BY <2>10, <2>11, <2>12 DEF Thread!IndInv
<1>4. ASSUME NEW r \in Req, Thread!ReadBack(r) PROVE Thread!IndInv'
  <2> DEFINE k == yRequest[r].key
  <2>1. /\ yTold' \in {yTold, [yTold EXCEPT ![k] = yDecided[k]]}
        /\ yRequest' = [yRequest EXCEPT ![r] = Thread!Idle] /\ yShown' = Thread!Nothing
        /\ UNCHANGED <<yDay, yFacts, yDecided>>
    BY <1>4 DEF Thread!ReadBack, Thread!Ends
  <2>2. k \in Thread!Rung
    BY <1>0 DEF YRecord
  <2> HIDE DEF k
  <2>3. yTold' \in [Thread!Rung -> YRow] /\ \A l \in Thread!Rung : yTold'[l] \in {yTold[l], yDecided[l]}
    BY <2>1, <2>2, <1>0
  <2>4. Thread!ToldIsDecided'
    BY <2>1, <2>3, <1>1 DEF Thread!ToldIsDecided
  <2> QED
    BY <2>1, <2>3, <2>4, <1>0, <1>a, <1>c, ThreadIdle
<1>5. ASSUME NEW r \in Req, NEW k \in Answerable, NEW choice \in {"dismissed", "snoozed"},
             Thread!Record(r, k, choice)
      PROVE  Thread!IndInv'
  <2> DEFINE row == [decision |-> choice, until |-> IF choice = "snoozed" THEN yDay + SnoozeFor ELSE 0]
             q == [Thread!Idle EXCEPT !.step = "read_back", !.key = k]
  <2>1. /\ \/ yDecided' = [yDecided EXCEPT ![k] = row] /\ yTold' = [yTold EXCEPT ![k] = Thread!NoRow]
           \/ UNCHANGED <<yDecided, yTold>>
        /\ yRequest' = [yRequest EXCEPT ![r] = q] \/ UNCHANGED yRequest
        /\ yShown' = Thread!Nothing /\ UNCHANGED <<yDay, yFacts>>
    BY <1>5 DEF Thread!Record
  <2>2. k \in Thread!Rung
    BY ThreadConstants
  <2>3. row \in YRow
    <3>1. (IF choice = "snoozed" THEN yDay + SnoozeFor ELSE 0) \in 0 .. ThreadDays + SnoozeFor
      BY <1>0, ThreadConstants
    <3> QED
      BY <3>1 DEF YRow
  <2>4. q \in YRecord
    BY <2>2, ThreadIdle DEF YRecord
  <2> HIDE DEF row, q
  <2>5. yRequest' \in [Req -> YRecord]
    BY <2>1, <2>4, <1>0, <1>c
  <2>6. yDecided' \in [Thread!Rung -> YRow] /\ yTold' \in [Thread!Rung -> YRow]
    BY <2>1, <2>3, <1>0, ThreadIdle
  <2>7. Thread!ToldIsDecided'
    BY <2>1, <2>2, <1>0, <1>1 DEF Thread!ToldIsDecided
  <2> QED
    BY <2>1, <2>5, <2>6, <2>7, <1>0, <1>a
<1>6. ASSUME Thread!Meanwhile PROVE Thread!IndInv'
  <2>1. yShown' = Thread!Nothing /\ UNCHANGED <<yDecided, yTold, yRequest>>
    BY <1>6 DEF Thread!Meanwhile
  <2>2. yDay' \in 0 .. ThreadDays /\ yFacts' \in SUBSET Thread!Fact
    <3>1. CASE yDay < ThreadDays /\ yDay' = yDay + 1 /\ UNCHANGED yFacts
      BY <3>1, <1>0, ThreadConstants
    <3>2. CASE yFacts' \in Situations \ {yFacts} /\ UNCHANGED yDay
      BY <3>2, <1>0, ThreadConstants
    <3> QED
      BY <1>6, <3>1, <3>2 DEF Thread!Meanwhile
  <2> QED
    BY <2>1, <2>2, <1>0, <1>a, <1>b
<1>7. CASE UNCHANGED Thread!vars
  <2>1. UNCHANGED <<yDay, yFacts, yDecided, yTold, yRequest, yShown>>
    BY <1>7 DEF Thread!vars
  <2>2. Thread!TypeOK'
    BY <2>1, <1>0, ThreadTypesNext
  <2>3. Thread!PutAwayStaysAway'
    BY <2>1 DEF Thread!IndInv, Thread!PutAwayStaysAway
  <2> QED
    BY <2>1, <2>2, <2>3, <1>b DEF Thread!IndInv
<1> QED
  BY <1>2, <1>3, <1>4, <1>5, <1>6, <1>7 DEF Thread!Next

\* The inductive invariant of Today and the thread always holds, whatever handlers run.
THEOREM ThreadInductive == DeskSpec => []Thread!IndInv
<1>1. Thread!IndInv /\ [DeskNext]_everything => Thread!IndInv'
  BY ThreadStep, ThreadNext
<1> QED
  BY ThreadInit, <1>1, PTL DEF DeskSpec

\* Under Today's first action, which decisions do not filter: what the user was told
\* is put away is not listed before its snooze is over, and nothing else is left out
\* (surviving, get_thread).
THEOREM DecisionsHide == DeskSpec => []PutAwayStaysAway
<1>1. Thread!IndInv => PutAwayStaysAway
  BY DEF PutAwayStaysAway, Thread!IndInv
<1> QED
  BY <1>1, ThreadInductive, PTL

-----------------------------------------------------------------------------
(* Together                                                                *)

\* The credit account is a part of the desk: its inductive invariant holds too.
THEOREM AccountInductive == DeskSpec => []IndInv
<1>1. DeskInit => IndInv
  BY InitIndInv DEF DeskInit
<1>2. [DeskNext]_everything => [Next]_vars
  BY DEF DeskNext, OthersWait, Off, everything
<1>3. IndInv /\ [DeskNext]_everything => IndInv'
  BY <1>2, NextIndInv
<1> QED
  BY <1>1, <1>3, PTL DEF DeskSpec

\* Every variable of every part keeps its type, whatever handlers run.
THEOREM TypesAreKept == DeskSpec => []TypesOK
<1>1. /\ IndInv => TypeOK
      /\ Jobs!IndInv => Jobs!TypeOK
      /\ Naukri!IndInv => Naukri!TypeOK
      /\ Emails!IndInv => Emails!TypeOK
  BY Zenon DEF IndInv, Jobs!IndInv, Naukri!IndInv, Emails!IndInv
<1>2. /\ Posts!IndInv => Posts!TypeOK
      /\ Updates!IndInv => Updates!TypeOK
      /\ Cards!IndInv => Cards!TypeOK
      /\ Market!IndInv => Market!TypeOK
  BY Zenon DEF Posts!IndInv, Updates!IndInv, Cards!IndInv, Market!IndInv
<1>3. /\ Page!IndInv => Page!TypeOK
      /\ Limits!IndInv => Limits!TypeOK
      /\ Codes!IndInv => Codes!TypeOK
      /\ Thread!IndInv => Thread!TypeOK
  BY Zenon DEF Page!IndInv, Limits!IndInv, Codes!IndInv, Thread!IndInv
<1>4. /\ IndInv /\ Jobs!IndInv /\ Naukri!IndInv /\ Emails!IndInv
      /\ Posts!IndInv /\ Updates!IndInv /\ Cards!IndInv /\ Market!IndInv
      /\ Page!IndInv /\ Limits!IndInv /\ Codes!IndInv /\ Thread!IndInv
      => TypesOK
  BY <1>1, <1>2, <1>3, Zenon DEF TypesOK
<1> QED
  BY <1>4, AccountInductive, JobsInductive, NaukriInductive, EmailsInductive, PostsInductive,
     UpdatesInductive, CardsInductive, MarketInductive, PageInductive, LimitsInductive,
     CodesInductive, ThreadInductive, PTL
=============================================================================
