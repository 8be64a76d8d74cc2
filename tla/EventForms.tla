----------------------------- MODULE EventForms -----------------------------
(***************************************************************************)
(* The form of a new event and the settings form of an event it becomes    *)
(* (features/events/event-form.tsx, settings-form.tsx), with the server's  *)
(* rules for settings.  A new event is two calls: the event, made public,  *)
(* then its settings.  A save reads the row and writes it whole, in two    *)
(* statements and no transaction; another client saves beside it.  Only    *)
(* what access depends on is kept of the fields; the password is whether   *)
(* there is one.                                                           *)
(***************************************************************************)
EXTENDS Naturals

CONSTANTS
    originalDownloads,   \* the plan allows them
    MaxSaves             \* bound: saves, another client's too

ASSUME EventFormsAssumption ==
    originalDownloads \in BOOLEAN /\ MaxSaves \in Nat

VARIABLES
    page,            \* the form on screen: "new" or "settings"
    values,          \* what is in it
    settings,        \* the server's, or NoEvent
    cached,          \* the settings query's data
    submit,          \* the call in flight: what the form sent, then the row it makes
    other,           \* the save of another client: the row it is about to write
    saves

formVars == <<page, values, settings, cached, submit, other, saves>>

Visibility == {"public", "password", "private"}
NoEvent    == [visibility |-> "none", hash |-> FALSE, allowDownload |-> FALSE, allowOriginalDownload |-> FALSE]
NoSave     == [row |-> NoEvent, sent |-> FALSE]
NoSubmit   == [on |-> "none", body |-> NoEvent, sent |-> FALSE, ends |-> "none"]
Defaults   == [visibility |-> "public", password |-> FALSE, allowDownload |-> TRUE, allowOriginalDownload |-> FALSE]

FormInit ==
    /\ page = "new" /\ values = Defaults /\ settings = NoEvent /\ cached = NoEvent
    /\ submit = NoSubmit /\ other = NoSave /\ saves = 0

-----------------------------------------------------------------------------
(* The schemas, and the requests                                           *)

eventSettingsSchema(v) == v.allowOriginalDownload => v.allowDownload
newEventSchema(v)      == eventSettingsSchema(v) /\ (v.visibility = "password" => v.password)

createEventSettingsSchema(v, passwordProtected) ==
    eventSettingsSchema(v) /\ (v.visibility = "password" => passwordProtected \/ v.password)

\* A password that is empty is not sent.  The new event's form drops what does
\* not go with its visibility, the settings form sends all.
toUpdateEventSettingsRequest(v) == [v EXCEPT !.password = IF @ THEN "set" ELSE "unsent"]
NewSettings(v) ==
    [v EXCEPT !.password = @ /\ v.visibility = "password",
              !.allowDownload = @ /\ v.visibility # "private",
              !.allowOriginalDownload = @ /\ v.allowDownload /\ v.visibility # "private"]

-----------------------------------------------------------------------------
(* The fields                                                              *)

\* The new form: who sees the gallery, and the password where it means anything.
VisibilityField ==
    \/ \E s \in Visibility : values' = [values EXCEPT !.visibility = s]
    \/ values.visibility = "password" /\ values' = [values EXCEPT !.password = ~@]

\* Its switches are off, and cannot be used, where they mean nothing; the value
\* stays.
DownloadSwitches ==
    /\ values.visibility # "private"
    /\ \/ values' = [values EXCEPT !.allowDownload = ~@]
       \/ values.allowDownload /\ values' = [values EXCEPT !.allowOriginalDownload = ~@]

EventForm ==
    /\ page = "new" /\ (VisibilityField \/ DownloadSwitches)
    /\ UNCHANGED <<page, settings, cached, submit, other, saves>>

EventSettingsForm ==
    /\ page = "settings"
    /\ \/ \E s \in Visibility : values' = [values EXCEPT !.visibility = s]
       \/ values.visibility = "password" /\ values' = [values EXCEPT !.password = ~@]
       \/ values' = [values EXCEPT !.allowDownload = ~@]
       \/ values' = [values EXCEPT !.allowOriginalDownload = ~@]
    /\ UNCHANGED <<page, settings, cached, submit, other, saves>>

\* The settings tab is opened: the form starts from the cached settings.
toSettingsDefaults ==
    /\ page = "settings" /\ cached # NoEvent /\ submit = NoSubmit
    /\ values' = [visibility |-> cached.visibility, password |-> FALSE,
                  allowDownload |-> cached.allowDownload, allowOriginalDownload |-> cached.allowOriginalDownload]
    /\ UNCHANGED <<page, settings, cached, submit, other, saves>>

-----------------------------------------------------------------------------
(* Submitting                                                              *)

Submit(on, body) ==
    /\ submit = NoSubmit /\ saves < MaxSaves /\ saves' = saves + 1
    /\ submit' = [on |-> on, body |-> body, sent |-> FALSE, ends |-> "none"]
    /\ UNCHANGED <<page, values, settings, cached, other>>

createEvent  == page = "new" /\ newEventSchema(values) /\ Submit("create", values)
saveSettings == page = "settings" /\ cached # NoEvent /\ createEventSettingsSchema(values, cached.hash)
                /\ Submit("save", toUpdateEventSettingsRequest(values))

\* The server: what a request makes of the settings, or its refusal.  An empty
\* password clears the one there is; the forms never send one.
Passwords == {"unsent", "empty", "set"}
buildSettings(current, in) ==
    LET download == in.allowDownload /\ in.visibility # "private"
    IN  [visibility |-> in.visibility, hash |-> (in.password = "set" \/ (in.password = "unsent" /\ current.hash)),
         allowDownload |-> download, allowOriginalDownload |-> in.allowOriginalDownload /\ download]
Verdict(current, next) ==
    IF next.visibility = "password" /\ ~next.hash THEN "422"
    ELSE IF next.allowOriginalDownload /\ ~current.allowOriginalDownload /\ ~originalDownloads THEN "402"
    ELSE "ok"

\* Mutant: the password is written only if the request has one.
WritePasswordIfSent(next, sent) == settings' = IF sent THEN next ELSE [next EXCEPT !.hash = settings.hash]

\* A save writes every column, as it has made them of the row it read.
UpdateSettings(next, sent) == settings' = next

CreateServedForm ==
    /\ submit.on = "create" /\ submit.ends = "none"
    /\ settings' = [NoEvent EXCEPT !.visibility = "public", !.allowDownload = TRUE]
    /\ submit' = [submit EXCEPT !.ends = "ok"]
    /\ UNCHANGED <<page, values, cached, other, saves>>

\* The row is read and what becomes of it checked ...
SettingsRead ==
    /\ submit.on \in {"defaults", "save"} /\ submit.ends = "none"
    /\ LET next == buildSettings(settings, submit.body)
           ends == Verdict(settings, next)
       IN  submit' = [submit EXCEPT !.ends = IF ends = "ok" THEN "write" ELSE ends,
                                    !.body = next, !.sent = (submit.body.password # "unsent")]
    /\ UNCHANGED <<page, values, settings, cached, other, saves>>

\* ... and written, whatever the row is by then.
SettingsWritten ==
    /\ submit.ends = "write"
    /\ UpdateSettings(submit.body, submit.sent)
    /\ submit' = [submit EXCEPT !.ends = "ok", !.body = settings', !.sent = FALSE]
    /\ UNCHANGED <<page, values, cached, other, saves>>

\* The caller has gone; its handler may go on.
Left == \/ UNCHANGED other
        \/ submit.ends = "write" /\ other = NoSave /\ other' = [row |-> submit.body, sent |-> submit.sent]

\* The event is there: its settings are sent.  If it failed, or its answer was
\* lost, the form stays, and an event there may be is not this form's.
EventCreated ==
    /\ submit.on = "create"
    /\ \/ /\ submit.ends = "ok"
          /\ submit' = [on |-> "defaults", body |-> toUpdateEventSettingsRequest(NewSettings(submit.body)), sent |-> FALSE, ends |-> "none"]
          /\ UNCHANGED settings
       \/ submit' = NoSubmit /\ settings' = NoEvent
    /\ UNCHANGED <<page, values, cached, other, saves>>

\* Saved; or refused, failed, or the answer lost.  Either way, to the event.
DefaultsAnswered ==
    /\ submit.on = "defaults"
    /\ submit' = NoSubmit /\ page' = "settings" /\ Left
    /\ UNCHANGED <<values, settings, cached, saves>>

\* The answer is cached and the password field emptied, whatever is in it.
SettingsAnswered ==
    /\ submit.on = "save"
    /\ \/ submit.ends = "ok" /\ cached' = submit.body /\ values' = [values EXCEPT !.password = FALSE] /\ UNCHANGED other
       \/ UNCHANGED <<values, cached>> /\ Left
    /\ submit' = NoSubmit
    /\ UNCHANGED <<page, settings, saves>>

\* The query is read, or read again.
useEventSettings ==
    /\ page = "settings" /\ cached' = settings
    /\ UNCHANGED <<page, values, settings, submit, other, saves>>

\* Another tab, or a client of the API, saves: its row is read ...
OtherRead ==
    /\ page = "settings" /\ other = NoSave /\ saves < MaxSaves /\ saves' = saves + 1
    /\ \E in \in [visibility : Visibility, password : Passwords, allowDownload : BOOLEAN, allowOriginalDownload : BOOLEAN] :
         /\ Verdict(settings, buildSettings(settings, in)) = "ok"
         /\ other' = [row |-> buildSettings(settings, in), sent |-> (in.password # "unsent")]
    /\ UNCHANGED <<page, values, settings, cached, submit>>

\* ... and written.
OtherWritten ==
    /\ other # NoSave /\ UpdateSettings(other.row, other.sent) /\ other' = NoSave
    /\ UNCHANGED <<page, values, cached, submit, saves>>

-----------------------------------------------------------------------------
FormNext ==
    \/ EventForm \/ EventSettingsForm \/ toSettingsDefaults \/ createEvent \/ saveSettings
    \/ CreateServedForm \/ SettingsRead \/ SettingsWritten \/ EventCreated \/ DefaultsAnswered \/ SettingsAnswered
    \/ useEventSettings \/ OtherRead \/ OtherWritten

FormSpec == FormInit /\ [][FormNext]_formVars
=============================================================================
