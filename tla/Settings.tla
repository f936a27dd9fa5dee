------------------------------ MODULE Settings ------------------------------
(***************************************************************************)
(* The settings of one user (routes/settings, services/settings_service):  *)
(* the fields of the profile that are saved and read back, and the         *)
(* retention of resume files, whose end deletes them one by one.           *)
(*                                                                         *)
(* A score fix (routes/score) is a third writer of the row: it reads the   *)
(* whole profile, changes one text and saves the whole of it.  The text    *)
(* itself is left out: no setting shows it.                                *)
(***************************************************************************)
EXTENDS FiniteSets

CONSTANTS
    Field,          \* the settings that are saved and read back
    Value,          \* what they may hold
    File,           \* resume files
    Req             \* requests in flight at the same time

VARIABLES
    profile,        \* profile[f]: what the row holds
    told,           \* told[f]: the value a client was told is saved, if none was written since
    optIn,          \* resumeRetentionOptIn
    files,          \* the files stored
    unseen,         \* files that came during a purge, or that a listing failed to show
    request,        \* request[r]: its step and what it holds
    undone          \* the settings a fix set back to what they were when it read them

vars == <<profile, told, optIn, files, unseen, request, undone>>

NoValue == "none"
Retention == "retention"
Unread == [f \in Field |-> NoValue]
Idle == [step |-> "idle", field |-> CHOOSE f \in Field : TRUE, value |-> NoValue,
         todo |-> {}, failed |-> {}, profile |-> Unread, optIn |-> FALSE]

TypeOK ==
    /\ profile \in [Field -> Value \union {NoValue}]
    /\ told \in [Field -> Value \union {NoValue}]
    /\ optIn \in BOOLEAN
    /\ files \subseteq File /\ unseen \subseteq File
    /\ request \in [Req -> [step : {"idle", "read_back", "purge", "opt_in", "opt_out", "fix"},
                            field : Field, value : Value \union {NoValue},
                            todo : SUBSET File, failed : SUBSET File,
                            profile : [Field -> Value \union {NoValue}], optIn : BOOLEAN]]
    /\ undone \subseteq Field \union {Retention}

Init ==
    /\ profile = Unread
    /\ told = Unread
    /\ optIn = FALSE
    /\ files = {} /\ unseen = {} /\ undone = {}
    /\ request = [r \in Req |-> Idle]

At(r, step) == request[r].step = step
Ends(r) == request' = [request EXCEPT ![r] = Idle]

-----------------------------------------------------------------------------
(* put_targets and put_details: a patch, then the row is read back         *)

\* The save succeeds, though it may not have stuck.
Save(r, f, v) ==
    /\ At(r, "idle")
    /\ profile' \in {profile, [profile EXCEPT ![f] = v]}
    /\ told' = [told EXCEPT ![f] = NoValue]
    /\ request' = [request EXCEPT ![r] = [Idle EXCEPT !.step = "read_back", !.field = f, !.value = v]]
    /\ undone' = undone \ {f}
    /\ UNCHANGED <<optIn, files, unseen>>

\* The answer is what the row now says; when that is not what was asked, or
\* cannot be read, it is that nothing changed.
ReadBack(r) ==
    /\ At(r, "read_back")
    /\ LET f == request[r].field IN
       \/ profile[f] = request[r].value /\ told' = [told EXCEPT ![f] = profile[f]]
       \/ UNCHANGED told
    /\ Ends(r)
    /\ UNCHANGED <<profile, optIn, files, unseen, undone>>

\* put_platforms, and a save that raises and may have landed: no reading back,
\* and change_platforms keeps at least one.
SaveUnread(f, v) ==
    /\ profile' = [profile EXCEPT ![f] = v]
    /\ told' = [told EXCEPT ![f] = NoValue]
    /\ undone' = undone \ {f}
    /\ UNCHANGED <<optIn, files, unseen, request>>

-----------------------------------------------------------------------------
(* put_retention                                                           *)

\* set_retention: on is only a flag.
OptIn(r) ==
    /\ At(r, "idle")
    /\ request' = [request EXCEPT ![r].step = "opt_in"]
    /\ UNCHANGED <<profile, told, optIn, files, unseen, undone>>

\* Off purges first.  SupabaseResumeStore.list_files answers a listing that
\* fails with no files.
List(r) ==
    /\ At(r, "idle")
    /\ \/ /\ request' = [request EXCEPT ![r].step = "purge", ![r].todo = files]
          /\ UNCHANGED unseen
       \/ /\ request' = [request EXCEPT ![r].step = "purge"]
          /\ unseen' = unseen \union files
    /\ UNCHANGED <<profile, told, optIn, files, undone>>

\* One file: deleted, or counted as failed.
Delete(r, file) ==
    /\ At(r, "purge") /\ file \in request[r].todo
    /\ \/ files' = files \ {file} /\ unseen' = unseen \ {file}
          /\ request' = [request EXCEPT ![r].todo = @ \ {file}]
       \/ UNCHANGED <<files, unseen>>
          /\ request' = [request EXCEPT ![r].todo = @ \ {file}, ![r].failed = @ \union {file}]
    /\ UNCHANGED <<profile, told, optIn, undone>>

\* (A plausible bug in Complete: the files asked for were all tried.)
CompleteTried(r) == request[r].todo = {}

\* DeletionReceipt.complete.
Complete(r) == request[r].failed = {}

\* The flag goes off only with a complete receipt; otherwise it stays on.
Purged(r) ==
    /\ At(r, "purge") /\ request[r].todo = {}
    /\ request' = [request EXCEPT ![r] = [Idle EXCEPT !.step = IF Complete(r) THEN "opt_out"
                                                                              ELSE "opt_in"]]
    /\ UNCHANGED <<profile, told, optIn, files, unseen, undone>>

\* The profile is saved; or the save fails.
SaveFlag(r) ==
    /\ At(r, "opt_in") \/ At(r, "opt_out")
    /\ optIn' \in {optIn, At(r, "opt_in")}
    /\ Ends(r)
    /\ UNCHANGED <<profile, told, files, unseen, undone>>

\* A resume is kept for a user who opted in.
Upload(file) ==
    /\ optIn /\ file \notin files
    /\ files' = files \union {file}
    /\ unseen' = unseen \union {f \in {file} : \E r \in Req : At(r, "purge") \/ At(r, "opt_out")}
    /\ UNCHANGED <<profile, told, optIn, request, undone>>

-----------------------------------------------------------------------------
(* apply_fix                                                               *)

\* The profile as it is; every column of it that the API knows.
ReadToFix(r) ==
    /\ At(r, "idle")
    /\ request' = [request EXCEPT ![r] = [Idle EXCEPT !.step = "fix", !.profile = profile,
                                                     !.optIn = optIn]]
    /\ UNCHANGED <<profile, told, optIn, files, unseen, undone>>

\* apply_score_fix changes the dict that was read, and all of it is saved; or
\* the save fails, landed or not.
WriteFix(r) ==
    /\ At(r, "fix")
    /\ LET was == request[r] IN
       \/ /\ profile' = was.profile /\ optIn' = was.optIn
          /\ undone' = undone \union {f \in Field : profile[f] # was.profile[f]}
                              \union {s \in {Retention} : optIn # was.optIn}
       \/ UNCHANGED <<profile, optIn, undone>>
    /\ Ends(r)
    /\ UNCHANGED <<told, files, unseen>>

Next ==
    \/ \E r \in Req :
        \/ ReadToFix(r) \/ WriteFix(r)
        \/ \E f \in Field, v \in Value : Save(r, f, v)
        \/ ReadBack(r) \/ OptIn(r) \/ List(r) \/ Purged(r) \/ SaveFlag(r)
        \/ \E file \in File : Delete(r, file)
    \/ \E f \in Field, v \in Value : SaveUnread(f, v)
    \/ \E file \in File : Upload(file)

Spec == Init /\ [][Next]_vars

-----------------------------------------------------------------------------
\* What a client was told is saved is what the row holds, and retention is off
\* only when no file is left but those no purge could know of: a purge that
\* fails half-way keeps the flag on, however purges overlap.  Only a fix that had
\* read the profile before can undo either (put_targets, put_details,
\* set_retention, purge_resumes, apply_fix).
SettingsSayWhatIs ==
    /\ \A f \in Field \ undone : told[f] # NoValue => profile[f] = told[f]
    /\ ~optIn => files \subseteq unseen \/ Retention \in undone

\* "The flag is only written as `false` once deletion actually succeeded."
OffMeansDeleted == ~optIn => files \subseteq unseen

-----------------------------------------------------------------------------
(* Why it holds.  A purge knows of every file but the unseen ones, and one  *)
(* that is about to turn retention off has deleted all it knew of.          *)

PurgesKnowTheFiles ==
    \A r \in Req :
        /\ At(r, "purge") => files \subseteq unseen \union request[r].todo \union request[r].failed
        /\ At(r, "opt_out") => files \subseteq unseen

IndInv ==
    /\ TypeOK
    /\ PurgesKnowTheFiles
    /\ SettingsSayWhatIs
=============================================================================
