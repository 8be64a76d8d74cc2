--------------------------- MODULE EventFormsProps ---------------------------
(***************************************************************************)
(* What the settings of an event promise.                                  *)
(***************************************************************************)
EXTENDS EventForms

\* What is stored of an event's access fits together, however the saves of two
\* clients overlap: guests who are asked for a password can give one, a private
\* event's photos are not downloaded, and no originals without downloads.  Each
\* save is a whole row that was checked, so the last one to write wins with all
\* of it (service.go:416, repository.go:337).
SettingsFitTogether ==
    /\ settings.visibility = "password" => settings.hash
    /\ settings.visibility = "private" => ~settings.allowDownload
    /\ settings.allowOriginalDownload => settings.allowDownload

=============================================================================
