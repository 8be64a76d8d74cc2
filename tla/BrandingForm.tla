---------------------------- MODULE BrandingForm ----------------------------
(***************************************************************************)
(* The branding of a gallery (features/branding, internal/users): a form   *)
(* that sends the fields it finds changed, and a logo that is uploaded     *)
(* under a key of its own, staged in the form, and named by the next save. *)
(* The server reads the row, merges the patch and writes the row.  Texts   *)
(* are numbers, as keys are; 0 is the empty one.                           *)
(***************************************************************************)
EXTENDS Naturals, FiniteSets

CONSTANTS
    TextFields,      \* the fields that are texts
    MaxUploads,      \* uploads that can be under way at once
    MaxAssets,       \* bound: keys
    MaxAccidents     \* bound: failures, and saves of another tab

ASSUME BrandingFormAssumption ==
    /\ TextFields \subseteq {"businessName", "primaryColor", "secondaryColor", "contactEmail", "contactPhone", "websiteUrl"}
    /\ {MaxUploads, MaxAssets, MaxAccidents} \subseteq Nat

VARIABLES
    brandingRow,     \* the server's row
    objects,         \* the keys whose object is stored
    assets,          \* keys handed out
    branding,        \* the query's data
    fields, base,    \* the form, and its default values
    logoChange,      \* what is staged
    clearTarget,     \* the dialog that asks whether to remove the logo is open
    upload,          \* the uploads under way
    patching,        \* the save under way
    accidents

brandingVars == <<brandingRow, objects, assets, branding, fields, base, logoChange,
                  clearTarget, upload, patching, accidents>>

Fields     == TextFields \cup {"logoKey"}
Texts      == {0, 1}
NoBranding == [f \in Fields |-> 0]
Unchanged  == [mode |-> "none", key |-> 0]
NoUpload   == [at |-> "idle", key |-> 0, again |-> FALSE]
NoPatch    == [on |-> "idle", patch |-> <<>>, row |-> NoBranding]

brandingValuesFrom(b) == [f \in TextFields |-> b[f]]

BrandingInit ==
    /\ brandingRow = NoBranding /\ objects = {} /\ assets = 0
    /\ branding = NoBranding /\ fields = brandingValuesFrom(NoBranding) /\ base = fields
    /\ logoChange = Unchanged /\ clearTarget = FALSE
    /\ upload = [u \in 1..MaxUploads |-> NoUpload]
    /\ patching = NoPatch /\ accidents = 0

Accident == accidents < MaxAccidents /\ accidents' = accidents + 1

-----------------------------------------------------------------------------
(* The upload of a logo                                                    *)

\* A file is chosen, or Retry; the label of the field opens the chooser also
\* while an upload is under way.
ChooseFile(u) ==
    /\ ~clearTarget /\ upload[u] = NoUpload
    /\ upload' = [upload EXCEPT ![u].at = "presign"]
    /\ UNCHANGED <<brandingRow, objects, assets, branding, fields, base, logoChange, clearTarget, patching, accidents>>

\* A key and a URL of its own for every attempt.
CreateAssetUpload(u) ==
    /\ upload[u].at = "presign" /\ assets < MaxAssets
    /\ assets' = assets + 1
    /\ upload' = [upload EXCEPT ![u] = [@ EXCEPT !.at = "put", !.key = assets']]
    /\ UNCHANGED <<brandingRow, objects, branding, fields, base, logoChange, clearTarget, patching, accidents>>

\* Mutant: the second attempt is staged under the first's key.
firstKey(asset) == asset.key - IF asset.again THEN 1 ELSE 0

\* The key of the attempt that succeeded.
storageKey(asset) == asset.key

\* onUploaded: staged, whatever is staged by then.
PutAsset(u) ==
    /\ upload[u].at = "put"
    /\ objects' = objects \cup {upload[u].key}
    /\ logoChange' = [mode |-> "set", key |-> storageKey(upload[u])]
    /\ upload' = [upload EXCEPT ![u] = NoUpload]
    /\ UNCHANGED <<brandingRow, assets, branding, fields, base, clearTarget, patching, accidents>>

\* The URL has expired: one more attempt, once.
isExpiredUrlError(u) ==
    /\ upload[u].at = "put" /\ Accident
    /\ upload' = [upload EXCEPT ![u] = IF @.again THEN NoUpload ELSE [@ EXCEPT !.at = "presign", !.again = TRUE]]
    /\ UNCHANGED <<brandingRow, objects, assets, branding, fields, base, logoChange, clearTarget, patching>>

\* Any other failure; the object may be stored all the same.
UploadFails(u) ==
    /\ upload[u] # NoUpload /\ Accident
    /\ objects' = objects \/ (upload[u].at = "put" /\ objects' = objects \cup {upload[u].key})
    /\ upload' = [upload EXCEPT ![u] = NoUpload]
    /\ UNCHANGED <<brandingRow, assets, branding, fields, base, logoChange, clearTarget, patching>>

\* Remove, which is asked for once more.
hasLogo == branding["logoKey"] # 0 \/ logoChange.mode = "set"
onClear ==
    /\ hasLogo /\ ~clearTarget /\ clearTarget' = TRUE
    /\ UNCHANGED <<brandingRow, objects, assets, branding, fields, base, logoChange, upload, patching, accidents>>
confirmClear ==
    /\ clearTarget /\ clearTarget' = FALSE
    /\ logoChange' \in {logoChange, [Unchanged EXCEPT !.mode = "clear"]}
    /\ UNCHANGED <<brandingRow, objects, assets, branding, fields, base, upload, patching, accidents>>

-----------------------------------------------------------------------------
(* The form                                                                *)

Field(f, value) ==
    /\ ~clearTarget /\ fields' = [fields EXCEPT ![f] = value]
    /\ UNCHANGED <<brandingRow, objects, assets, branding, base, logoChange, clearTarget, upload, patching, accidents>>

hasChanges == fields # base \/ logoChange # Unchanged
discard ==
    /\ hasChanges /\ patching = NoPatch /\ ~clearTarget
    /\ fields' = brandingValuesFrom(branding) /\ base' = fields' /\ logoChange' = Unchanged
    /\ UNCHANGED <<brandingRow, objects, assets, branding, clearTarget, upload, patching, accidents>>

\* The fields that differ from the branding as the query has it now, which may
\* not be what the form started from; and what is staged.
Changed == {f \in TextFields : fields[f] # branding[f]} \cup IF logoChange = Unchanged THEN {} ELSE {"logoKey"}
toBrandingPatch == [f \in Changed |-> IF f \in TextFields THEN fields[f] ELSE logoChange.key]

SubmitBranding ==
    /\ patching = NoPatch /\ Changed # {} /\ ~clearTarget
    /\ patching' = [NoPatch EXCEPT !.on = "sent", !.patch = toBrandingPatch]
    /\ UNCHANGED <<brandingRow, objects, assets, branding, fields, base, logoChange, clearTarget, upload, accidents>>

\* The answer: whatever was typed or staged meanwhile is gone.
BrandingSaved ==
    /\ patching.on = "served" /\ patching' = NoPatch
    /\ branding' = patching.row /\ fields' = brandingValuesFrom(patching.row) /\ base' = fields'
    /\ logoChange' = Unchanged
    /\ UNCHANGED <<brandingRow, objects, assets, clearTarget, upload, accidents>>

\* It is refused, or its answer is lost.
BrandingFails ==
    /\ patching # NoPatch /\ Accident /\ patching' = NoPatch
    /\ UNCHANGED <<brandingRow, objects, assets, branding, fields, base, logoChange, clearTarget, upload>>

\* The query is read again: on mount, on reconnection.
useBranding ==
    /\ branding' = brandingRow
    /\ UNCHANGED <<brandingRow, objects, assets, fields, base, logoChange, clearTarget, upload, patching, accidents>>

-----------------------------------------------------------------------------
(* The server                                                              *)

applyBrandingInput(current, in) == [f \in Fields |-> IF f \in DOMAIN in THEN in[f] ELSE current[f]]

UpdateBranding ==
    /\ patching.on = "sent"
    /\ patching' = [patching EXCEPT !.on = "merged", !.row = applyBrandingInput(brandingRow, patching.patch)]
    /\ UNCHANGED <<brandingRow, objects, assets, branding, fields, base, logoChange, clearTarget, upload, accidents>>
UpsertBranding ==
    /\ patching.on = "merged"
    /\ brandingRow' = patching.row /\ patching' = [patching EXCEPT !.on = "served"]
    /\ UNCHANGED <<objects, assets, branding, fields, base, logoChange, clearTarget, upload, accidents>>

OtherBranding ==
    /\ Accident
    /\ \E f \in TextFields, value \in Texts : brandingRow' = [brandingRow EXCEPT ![f] = value]
    /\ UNCHANGED <<objects, assets, branding, fields, base, logoChange, clearTarget, upload, patching>>

-----------------------------------------------------------------------------
(* The page                                                                *)

AssetUploadField == (\E u \in 1..MaxUploads : ChooseFile(u)) \/ onClear
BrandingFormBody ==
    \/ AssetUploadField \/ (\E f \in TextFields, value \in Texts : Field(f, value))
    \/ discard \/ SubmitBranding \/ confirmClear

BrandingNext ==
    \/ BrandingFormBody
    \/ \E u \in 1..MaxUploads : CreateAssetUpload(u) \/ PutAsset(u) \/ isExpiredUrlError(u) \/ UploadFails(u)
    \/ BrandingSaved \/ BrandingFails \/ useBranding
    \/ UpdateBranding \/ UpsertBranding \/ OtherBranding

BrandingSpec == BrandingInit /\ [][BrandingNext]_brandingVars
=============================================================================
