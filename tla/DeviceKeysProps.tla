--------------------------- MODULE DeviceKeysProps ---------------------------
(***************************************************************************)
(* What the photobooths' page promises of a key that is shown once.        *)
(***************************************************************************)
EXTENDS DeviceKeys

\* A key shown after a rotation is the one the server takes from its device,
\* whatever dialogs were left with a rotation in flight and opened again: no
\* second rotation can be asked for behind it (rotate-key-dialog.tsx:32-40).
RotatedKeyWorks ==
    keyResult.action = "rotated" => keyResult.key = keyOf[keyResult.device]

=============================================================================
