------------------------------ MODULE WebPages ------------------------------
(***************************************************************************)
(* The guest's gallery, and the operator's photos of an event and billing  *)
(* page.  One of them is open; none of the modules keeps what another      *)
(* one's page shows.                                                       *)
(***************************************************************************)
EXTENDS PhotoLibraryProps, BillingProps, WebGalleryProps

VARIABLE tab         \* the page that is open

pageVars == <<libraryVars, billingVars, vars, tab>>

PagesInit ==
    /\ tab \in {"photos", "billing", "gallery"}
    /\ LibraryInit /\ BillingInit /\ Init
    /\ tab = "gallery" \/ requiresUnlock

PagesNext ==
    \/ tab = "photos" /\ LibraryNext /\ UNCHANGED <<billingVars, vars, tab>>
    \/ tab = "billing" /\ BillingNext /\ UNCHANGED <<libraryVars, vars, tab>>
    \/ tab = "gallery" /\ Next /\ UNCHANGED <<libraryVars, billingVars, tab>>

PagesSpec == PagesInit /\ [][PagesNext]_pageVars
=============================================================================
