-------------------------- MODULE BrandingFormProps --------------------------
(***************************************************************************)
(* What the branding form promises.                                        *)
(***************************************************************************)
EXTENDS BrandingForm

\* The logo a gallery shows names an object that was stored, through expired
\* URLs, second attempts, two uploads at once and saves in between
\* (asset-upload.tsx:74, branding-form.tsx:268).
LogoIsStored == brandingRow["logoKey"] \in objects \cup {0}
=============================================================================
