-------------------------- MODULE PhotoLibraryProps --------------------------
(***************************************************************************)
(* What the operator's list of photos promises.                            *)
(***************************************************************************)
EXTENDS PhotoLibrary

\* The list of all photos, once it is at rest and was last asked for with its
\* data at hand: it shows no photo the page has reported deleted, and none that
\* a refused deletion took from it is missing (api.ts:83 useDeletePhoto).  The
\* first request of a list and Load more may take the place of the one that
\* would have seen to it.
AtRest == fetch["all"].on = "none" /\ library["all"].state = "success" /\ ~isPending
NoGhosts ==
    AtRest /\ library["all"].last = "again" =>
        /\ ShownBy(library["all"]) \cap deleted = {}
        /\ \A p \in Rows : p <= library["all"].data.cursor /\ row[p] # "gone" => p \in ShownBy(library["all"])
=============================================================================
