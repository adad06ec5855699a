--------------------------- MODULE WorkspaceSettings ---------------------------
(***************************************************************************)
(* The settings of a workspace: one JSON column that several endpoints load *)
(* whole, change and store whole, and that every turn of a message worker   *)
(* reads to decide whether it may answer by itself.                         *)
(*                                                                          *)
(* The endpoints are reached through Sessions: an edit starts in a call     *)
(* whose user has been loaded.  Two keys stand for the column: paused       *)
(* (automation_paused) and custom (any key of PATCH /settings).             *)
(***************************************************************************)
EXTENDS Sessions

CONSTANTS
    Workers        \* message workers

ASSUME WorkspaceSettingsAssumption == IsFiniteSet(Workers)

VARIABLES
    stored,        \* the column
    edit,          \* [Calls -> what the handler loaded and what it changes]
    turn,          \* [Workers -> "idle", "automatic" or "image": an answer is computed]
    intended,      \* the column if the edits had come one after the other
    overlapped,    \* an edit has loaded while another was between load and store
    lateAnswers    \* automatic answers to texts since the column says paused

settingsVars == <<stored, edit, turn, intended, overlapped, lateAnswers>>
allVars == <<sessionVars, settingsVars>>

Settings == [paused : BOOLEAN, custom : {"default", "changed"}]
Default  == [paused |-> FALSE, custom |-> "default"]

\* pause-automation, resume-automation, and PATCH of another key.
Edits == {"pause", "resume", "patch"}
NoEdit == [op |-> "none", loaded |-> Default]

Changed(settings, op) ==
    CASE op = "pause"  -> [settings EXCEPT !.paused = TRUE]
      [] op = "resume" -> [settings EXCEPT !.paused = FALSE]
      [] op = "patch"  -> [settings EXCEPT !.custom = "changed"]

\* The handler SELECTs the row, without a lock.
LoadSettings(c, op) ==
    /\ call[c].pc = "loaded" /\ call[c].op = "use"
    /\ Goto(c, "editing")
    /\ edit' = [edit EXCEPT ![c] = [op |-> op, loaded |-> stored]]
    /\ overlapped' = (overlapped \/ \E d \in Calls : call[d].pc = "editing")
    /\ UNCHANGED <<now, active, workspace, issued, held, blacklist, revoked, late, keyVars>>
    /\ UNCHANGED <<stored, turn, intended, lateAnswers>>

\* Variant: the body replaces the column.
StoreBody(c) ==
    /\ call[c].pc = "editing"
    /\ stored' = Changed(Default, edit[c].op)
    /\ intended' = Changed(intended, edit[c].op)
    /\ edit' = [edit EXCEPT ![c] = NoEdit]
    /\ lateAnswers' = IF stored'.paused = stored.paused THEN lateAnswers ELSE 0
    /\ Effect(call[c].token.user)
    /\ Return(c)
    /\ UNCHANGED <<now, active, workspace, issued, held, blacklist, revoked, keyVars>>
    /\ UNCHANGED <<turn, overlapped>>

\* The commit writes the whole column, unless it equals what was loaded: then
\* the unit of work has nothing to update.
StoreSettings(c) ==
    /\ call[c].pc = "editing"
    /\ LET new == Changed(edit[c].loaded, edit[c].op) IN
          stored' = IF new = edit[c].loaded THEN stored ELSE new
    /\ intended' = Changed(intended, edit[c].op)
    /\ edit' = [edit EXCEPT ![c] = NoEdit]
    /\ lateAnswers' = IF stored'.paused = stored.paused THEN lateAnswers ELSE 0
    /\ Effect(call[c].token.user)
    /\ Return(c)
    /\ UNCHANGED <<now, active, workspace, issued, held, blacklist, revoked, keyVars>>
    /\ UNCHANGED <<turn, overlapped>>

\* Any other handler of the dashboard.
Serve(c) ==
    /\ call[c].pc = "loaded" /\ call[c].op = "use"
    /\ Effect(call[c].token.user)
    /\ Return(c)
    /\ UNCHANGED <<now, active, workspace, issued, held, blacklist, revoked, keyVars>>
    /\ UNCHANGED settingsVars

\* _run_orchestrator, for a text: a paused workspace escalates instead of answering.
ReadSettings(w) ==
    /\ turn[w] = "idle" /\ ~stored.paused
    /\ turn' = [turn EXCEPT ![w] = "automatic"]
    /\ UNCHANGED <<sessionVars, stored, edit, intended, overlapped, lateAnswers>>

\* _handle_media_messages gives an image to a handler of its own, which answers
\* and never looks at the settings.
AnalyseImage(w) ==
    /\ turn[w] = "idle"
    /\ turn' = [turn EXCEPT ![w] = "image"]
    /\ UNCHANGED <<sessionVars, stored, edit, intended, overlapped, lateAnswers>>

SendImageAnswer(w) ==
    /\ turn[w] = "image"
    /\ turn' = [turn EXCEPT ![w] = "idle"]
    /\ UNCHANGED <<sessionVars, stored, edit, intended, overlapped, lateAnswers>>

\* The answer goes out, whatever the settings say by now.
SendAnswer(w) ==
    /\ turn[w] = "automatic"
    /\ turn' = [turn EXCEPT ![w] = "idle"]
    /\ lateAnswers' = IF stored.paused THEN lateAnswers + 1 ELSE lateAnswers
    /\ UNCHANGED <<sessionVars, stored, edit, intended, overlapped>>

-----------------------------------------------------------------------------
SettingsInit ==
    /\ SessionInit
    /\ stored = Default /\ intended = Default
    /\ edit = [c \in Calls |-> NoEdit]
    /\ turn = [w \in Workers |-> "idle"]
    /\ overlapped = FALSE
    /\ lateAnswers = 0

SettingsNext ==
    \/ SessionStep /\ UNCHANGED settingsVars
    \/ \E c \in Calls : \/ \E op \in Edits : LoadSettings(c, op)
                        \/ StoreSettings(c) \/ Serve(c)
    \/ \E w \in Workers : \/ ReadSettings(w) \/ SendAnswer(w)
                          \/ AnalyseImage(w) \/ SendImageAnswer(w)

SettingsSpec == SettingsInit /\ [][SettingsNext]_allVars

-----------------------------------------------------------------------------
(* Properties                                                              *)

SettingsTypeOK ==
    /\ SessionTypeOK
    /\ stored \in Settings /\ intended \in Settings
    /\ edit \in [Calls -> [op : Edits \cup {"none"}, loaded : Settings]]
    /\ \A c \in Calls : call[c].pc = "editing" <=> edit[c].op # "none"
    /\ turn \in [Workers -> {"idle", "automatic", "image"}]
    /\ overlapped \in BOOLEAN
    /\ lateAnswers \in Nat

\* As long as no two edits overlap, every key has the value of the edit that set
\* it last: pausing, resuming and patching do not undo each other.
EditsMerge == overlapped \/ stored = intended

\* Pausing takes hold with the next text of each worker: while the column says
\* paused, an answer already being computed still goes out, one for each worker at
\* most. Answers to images go on; an overlapping PATCH may take the flag back.
TextsPause == lateAnswers <= Cardinality(Workers)

\* Where a check is made, what it refuses stops: of the requests of a suspended
\* user, of those under a revoked key, and of the texts of a paused workspace, only
\* what had passed the check before still has an effect. Open WebSockets and images
\* are not checked.
ChecksTakeHold == LateWithinCalls /\ RevokedKeyStops /\ TextsPause
=============================================================================
