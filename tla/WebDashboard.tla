---------------------------- MODULE WebDashboard ----------------------------
(***************************************************************************)
(* Pages of the operator's dashboard: an event's export card, its forms,   *)
(* the photobooths and the branding page.  One of them is open; none of    *)
(* the modules keeps what another one's page shows.                        *)
(***************************************************************************)
EXTENDS ExportCardProps, EventFormsProps, DeviceKeysProps, BrandingFormProps

VARIABLE screen      \* the page that is open

dashboardVars == <<exportVars, formVars, deviceVars, brandingVars, screen>>

DashboardInit ==
    /\ screen \in {"export", "event", "devices", "branding"}
    /\ ExportInit /\ FormInit /\ DeviceInit /\ BrandingInit
    /\ screen = "export" \/ storage

DashboardNext ==
    \/ screen = "export" /\ ExportNext /\ UNCHANGED <<formVars, deviceVars, brandingVars, screen>>
    \/ screen = "event" /\ FormNext /\ UNCHANGED <<exportVars, deviceVars, brandingVars, screen>>
    \/ screen = "devices" /\ DeviceNext /\ UNCHANGED <<exportVars, formVars, brandingVars, screen>>
    \/ screen = "branding" /\ BrandingNext /\ UNCHANGED <<exportVars, formVars, deviceVars, screen>>

DashboardSpec == DashboardInit /\ [][DashboardNext]_dashboardVars /\ (screen = "export" => ExportFairness)
=============================================================================
