-------------------------- MODULE ProfileUpdates --------------------------
(***************************************************************************)
(* Changes to a profile that wait for the user's yes or no                 *)
(* (routes/profile_updates, services/profile_updates).                     *)
(*                                                                         *)
(* A change is recorded with the proposal built from it; the decision      *)
(* loads the row, checks that it is still proposed, and updates it by its  *)
(* id.  Only a yes is answered with the agents to run.                     *)
(***************************************************************************)
EXTENDS Naturals

CONSTANTS
    Change,         \* the changes there are
    Req             \* requests in flight at the same time

VARIABLES
    row,            \* row[c]: the row of the change, or NoRow
    request,        \* request[r]: the change it decides, and its answer
    told,           \* told[c]: the answers that were accepted
    ran             \* ran[c]: the agents a client was told to run

vars == <<row, request, told, ran>>

Kind == {"skill", "certification", "project", "role", "education"}
Magnitude == {"quiet", "notable", "major"}
MagnitudeOf(kind) ==
    CASE kind \in {"skill", "certification", "education"} -> "quiet"
      [] kind = "project" -> "notable"
      [] kind = "role" -> "major"

AgentsFor(magnitude) == IF magnitude = "major" THEN {"profile", "content", "jobs"} ELSE {"profile"}

\* build_proposal: what is stored with the change and shown to the user.
Proposal(kind) ==
    [magnitude |-> MagnitudeOf(kind), agents |-> AgentsFor(MagnitudeOf(kind)),
     offers_post |-> MagnitudeOf(kind) = "notable"]

State == {"none", "proposed", "approved", "declined"}
NoRow == [state |-> "none", kind |-> "skill", proposal |-> Proposal("skill")]
Decision(approved) == IF approved THEN "approved" ELSE "declined"

Idle == [change |-> CHOOSE c \in Change : TRUE, approved |-> FALSE, busy |-> FALSE,
         read |-> "none", agents |-> {}]

TypeOK ==
    /\ row \in [Change -> {[state |-> s, kind |-> k, proposal |-> Proposal(k)] :
                              s \in State, k \in Kind}]
    /\ request \in [Req -> [change : Change, approved : BOOLEAN, busy : BOOLEAN,
                            read : State, agents : SUBSET AgentsFor("major")]]
    /\ told \in [Change -> SUBSET {"approved", "declined"}]
    /\ ran \in [Change -> SUBSET AgentsFor("major")]

Init ==
    /\ row = [c \in Change |-> NoRow]
    /\ request = [r \in Req |-> Idle]
    /\ told = [c \in Change |-> {}]
    /\ ran = [c \in Change |-> {}]

-----------------------------------------------------------------------------
\* post_change: one insert; a payload with fields of another kind is refused
\* before.  A failed insert may have landed, and is found by get_open.
PostChange(c, kind) ==
    /\ row[c].state = "none"
    /\ row' = [row EXCEPT ![c] = [state |-> "proposed", kind |-> kind, proposal |-> Proposal(kind)]]
    /\ UNCHANGED <<request, told, ran>>

\* (A plausible bug in ReadToDecide: decide looks at no state.)
ReadToDecideAgain(r, c, approved) ==
    /\ ~request[r].busy /\ row[c].state # "none"
    /\ request' = [request EXCEPT ![r] = [change |-> c, approved |-> approved, busy |-> TRUE,
                                          read |-> row[c].state,
                                          agents |-> row[c].proposal.agents]]
    /\ UNCHANGED <<row, told, ran>>

\* post_decision loads the row; decide refuses one that is not proposed.
ReadToDecide(r, c, approved) ==
    /\ ~request[r].busy /\ row[c].state = "proposed"
    /\ request' = [request EXCEPT ![r] = [change |-> c, approved |-> approved, busy |-> TRUE,
                                          read |-> row[c].state,
                                          agents |-> row[c].proposal.agents]]
    /\ UNCHANGED <<row, told, ran>>

\* The update goes by the id, whatever the state is now; the answer of a yes
\* names the agents of the proposal that was read.
Decide(r) ==
    /\ request[r].busy
    /\ LET c == request[r].change
           decision == Decision(request[r].approved)
       IN  /\ row' = [row EXCEPT ![c].state = decision]
           /\ told' = [told EXCEPT ![c] = @ \union {decision}]
           /\ ran' = [ran EXCEPT ![c] = @ \union IF request[r].approved THEN request[r].agents ELSE {}]
    /\ request' = [request EXCEPT ![r] = Idle]

\* The update fails, and may have landed: the user is told nothing has changed.
DecideFails(r) ==
    /\ request[r].busy
    /\ \/ UNCHANGED row
       \/ row' = [row EXCEPT ![request[r].change].state = Decision(request[r].approved)]
    /\ request' = [request EXCEPT ![r] = Idle]
    /\ UNCHANGED <<told, ran>>

Next ==
    \/ \E c \in Change, kind \in Kind : PostChange(c, kind)
    \/ \E r \in Req :
        \/ \E c \in Change, approved \in BOOLEAN : ReadToDecide(r, c, approved)
        \/ Decide(r) \/ DecideFails(r)

Spec == Init /\ [][Next]_vars

-----------------------------------------------------------------------------
\* A decision that was recorded stands against every answer that begins after
\* it: it is replaced only by one that had read the row as proposed ("the second
\* answer would silently replace a record of what the user actually agreed to",
\* AlreadyDecided), and the agents run for a change are those of its proposal,
\* and only if a yes was accepted (post_decision).
DecisionStands ==
    [][\A c \in Change :
        /\ row[c].state \in {"approved", "declined"} =>
              \/ row'[c].state = row[c].state
              \/ \E r \in Req : /\ request[r].busy /\ ~request'[r].busy
                               /\ request[r].change = c /\ request[r].read = "proposed"
        /\ ran'[c] # {} => "approved" \in told'[c] /\ ran'[c] = row[c].proposal.agents]_vars

-----------------------------------------------------------------------------
(* Why it holds.  A proposal never changes once it is recorded: what a      *)
(* request read of it, and what was run for it, are still what it says.     *)

ReadsAreOfProposed ==
    \A r \in Req : request[r].busy =>
        LET c == request[r].change IN
        /\ request[r].read = "proposed" /\ row[c].state # "none"
        /\ request[r].agents = row[c].proposal.agents

RanWasApproved ==
    \A c \in Change : ran[c] # {} =>
        /\ row[c].state # "none"
        /\ "approved" \in told[c] /\ ran[c] = row[c].proposal.agents

IndInv ==
    /\ TypeOK
    /\ ReadsAreOfProposed
    /\ RanWasApproved
=============================================================================
