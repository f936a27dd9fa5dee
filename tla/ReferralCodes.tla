---------------------------- MODULE ReferralCodes ----------------------------
(***************************************************************************)
(* Minting a referral code: GET /referrals and                             *)
(* SupabaseReferralStore.code_for.                                         *)
(*                                                                         *)
(* A code is minted by the first read of the page.  Two tabs may read "no  *)
(* code" together; the primary key on user_id lets one insert through and  *)
(* the loser reads again.  A code drawn at random may also be somebody     *)
(* else's, which the unique index on code refuses with the same SQLSTATE.  *)
(***************************************************************************)
EXTENDS Naturals

CONSTANTS
    User,
    Code,       \* the codes new_code may draw
    Req         \* page reads in flight at the same time

NoCode == "no code"

VARIABLES
    code,       \* code[u]: the code in referral_codes, or NoCode
    pc,         \* pc[r]: the next call of page read r
    who,        \* who[r]: the user who opened the page
    mine,       \* mine[r]: the code r is about to hand out
    answer      \* answer[r]: the code r handed out, "none" or "unavailable"

vars == <<code, pc, who, mine, answer>>

Step == {"idle", "read", "insert", "reread", "summary"}

TypeOK ==
    /\ code \in [User -> Code \union {NoCode}]
    /\ pc \in [Req -> Step]
    /\ who \in [Req -> User]
    /\ mine \in [Req -> Code \union {NoCode}]
    /\ answer \in [Req -> Code \union {"none", "unavailable"}]

Init ==
    /\ code = [u \in User |-> NoCode]
    /\ pc = [r \in Req |-> "idle"]
    /\ who = [r \in Req |-> CHOOSE u \in User : TRUE]
    /\ mine = [r \in Req |-> NoCode]
    /\ answer = [r \in Req |-> "none"]

-----------------------------------------------------------------------------
(* Helpers *)

Return(r, a) ==
    /\ pc' = [pc EXCEPT ![r] = "idle"]
    /\ mine' = [mine EXCEPT ![r] = NoCode]
    /\ answer' = [answer EXCEPT ![r] = a]

\* code_for is done with code c; the counts are read next.
HandOver(r, c) ==
    /\ pc' = [pc EXCEPT ![r] = "summary"]
    /\ mine' = [mine EXCEPT ![r] = c]
    /\ UNCHANGED answer

Goto(r, step) ==
    /\ pc' = [pc EXCEPT ![r] = step]
    /\ UNCHANGED <<mine, answer>>

\* Both unique indexes let the row in.
CanInsert(u, c) == code[u] = NoCode /\ \A v \in User : code[v] # c

-----------------------------------------------------------------------------
(* Plausible bugs.  No specification uses them: each is a mutated form of   *)
(* the action or helper it names, which the checks must notice.            *)

\* The loser hands out the code it drew.
InsertKeepsOwn(r) ==
    /\ pc[r] = "insert"
    /\ \E c \in Code :
          /\ code' = IF CanInsert(who[r], c) THEN [code EXCEPT ![who[r]] = c] ELSE code
          /\ HandOver(r, c)
    /\ UNCHANGED who

-----------------------------------------------------------------------------
OpenPage(r, u) ==
    /\ pc[r] = "idle"
    /\ pc' = [pc EXCEPT ![r] = "read"]
    /\ who' = [who EXCEPT ![r] = u]
    /\ answer' = [answer EXCEPT ![r] = "none"]
    /\ UNCHANGED <<code, mine>>

Read(r) ==
    /\ pc[r] = "read"
    /\ IF code[who[r]] # NoCode
       THEN HandOver(r, code[who[r]])
       ELSE Goto(r, "insert")
    /\ UNCHANGED <<code, who>>

\* The insert of a fresh code, and the refusal of either index.
Insert(r) ==
    /\ pc[r] = "insert"
    /\ \E c \in Code :
          IF CanInsert(who[r], c)
          THEN /\ code' = [code EXCEPT ![who[r]] = c]
               /\ HandOver(r, c)
          ELSE /\ Goto(r, "reread")
               /\ UNCHANGED code
    /\ UNCHANGED who

\* Any other error of the insert is raised; the row may be there.
InsertFails(r) ==
    /\ pc[r] = "insert"
    /\ \/ \E c \in Code :
             CanInsert(who[r], c) /\ code' = [code EXCEPT ![who[r]] = c]
       \/ UNCHANGED code
    /\ Return(r, "unavailable")
    /\ UNCHANGED who

\* The loser reads the winner's code.  There is none when the draw collided
\* with another user's code: the violation is raised again.
Reread(r) ==
    /\ pc[r] = "reread"
    /\ IF code[who[r]] # NoCode
       THEN HandOver(r, code[who[r]])
       ELSE Return(r, "unavailable")
    /\ UNCHANGED <<code, who>>

\* summary_counts and the response.
Summary(r) ==
    /\ pc[r] = "summary"
    /\ Return(r, mine[r])
    /\ UNCHANGED <<code, who>>

\* The reads that may fail end in a 503.
ReadFails(r) ==
    /\ pc[r] \in {"read", "reread", "summary"}
    /\ Return(r, "unavailable")
    /\ UNCHANGED <<code, who>>

Crash(r) ==
    /\ pc[r] # "idle"
    /\ Return(r, "none")
    /\ UNCHANGED <<code, who>>

-----------------------------------------------------------------------------
Serve(r) ==
    \/ Read(r) \/ Insert(r) \/ InsertFails(r) \/ Reread(r)
    \/ Summary(r) \/ ReadFails(r) \/ Crash(r)

Next ==
    \/ \E r \in Req, u \in User : OpenPage(r, u)
    \/ \E r \in Req : Serve(r)

Spec == Init /\ [][Next]_vars

-----------------------------------------------------------------------------
(* Properties *)

\* "Returning `code` here would hand out a string that is in nobody's table"
\* (code_for): every code a page has handed out is the stored code of the user
\* who opened it, whatever other tabs mint at the same time.
HandedCodeIsStored ==
    \A r \in Req : answer[r] \in Code => code[who[r]] = answer[r]

-----------------------------------------------------------------------------
(* Why it holds.  A stored code never changes, and what a page is about to  *)
(* hand out is one.                                                         *)

AboutToHandOutStored ==
    \A r \in Req : pc[r] = "summary" => mine[r] # NoCode /\ code[who[r]] = mine[r]

IndInv ==
    /\ TypeOK
    /\ AboutToHandOutStored
    /\ HandedCodeIsStored
=============================================================================
