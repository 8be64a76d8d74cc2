--------------------------- MODULE ExportCardProps ---------------------------
(***************************************************************************)
(* What the export card promises.                                          *)
(***************************************************************************)
EXTENDS ExportCard

\* The card never leaves its user with nothing to do: while nothing is in
\* flight and nothing will be asked by itself, it has a button
\* (export-card.tsx:125).
ByItself == exportId # 0 /\ (asked[exportId] # NoAsk \/ isWorking
                             \/ (Shown.status = "none" /\ Shown.error = "none"))
ExportNeverStuck == createExport = NoCreate /\ ~ByItself => Buttons # {}

\* An archive the card shows being made is, in the end, one it shows made,
\* failed or gone (api.ts:36 exportRefetchInterval).
ExportSettles == isWorking ~> ~isWorking

=============================================================================
