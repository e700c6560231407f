--------------------------- MODULE DashboardPages ---------------------------
(***************************************************************************)
(* The pages of the dashboard (src/frontend/src/app/dashboard), as far as  *)
(* they read and write a workspace: who may see a page, from where it      *)
(* takes the workspace, what it loads, and what its buttons send.  Module  *)
(* WorkspacePages runs them.                                               *)
(***************************************************************************)
EXTENDS Naturals

\* Where a page takes the workspace from: the store, by the hooks of shell.tsx
\* or by a call of its own at every change ("store"); the store, copied to a
\* state of the page by a transition ("copied"); the first of the list it asks
\* for itself ("first"); localStorage, once ("saved") or whenever it is
\* rendered ("savedNow"); nowhere ("account").
Sources == {"store", "copied", "first", "saved", "savedNow", "account"}

\* The workspace a button sends its call to: the one the page had when it was
\* first rendered, since useMutation keeps the first closure it is given
\* ("first"); the active one ("active"); the one the page took ("taken"); the one
\* of the record it shows, while a callback that does not depend on the workspace
\* is not renewed ("loaded"); or the call names none ("none").
Targets == {"first", "active", "taken", "loaded", "none"}

ROLE_RANK == [viewer |-> 1, editor |-> 2, admin |-> 3, owner |-> 4]
Roles == DOMAIN ROLE_RANK
roleAtLeast(role, minimum) == ROLE_RANK[role] >= ROLE_RANK[minimum]

Features == {"campaigns", "webhooks", "audit_log", "exports"}
None == "none"

Afters == {"reload", "keep"}

\* A resource of a page: does what is typed or picked on the page select what it
\* loads ("filtered") or not ("fixed").
Resources == {"filtered", "fixed"}

\* A button: where it sends, who sees it, and whether a resource of the page is
\* loaded again when it succeeded.
Button(to, role, feature, after) ==
    [to |-> to, role |-> role, feature |-> feature, after |-> after]
Buttons == [to : Targets, role : Roles, feature : Features \cup {None}, after : Afters]

\* A page inside WorkspaceGate that loads by useResource.
Gated(role, feature, resources, buttons) ==
    [gated |-> TRUE, role |-> role, feature |-> feature, from |-> "store",
     hook |-> TRUE, resources |-> resources, buttons |-> buttons]

\* A page that calls fetch itself.
Plain(from, resources, buttons) ==
    [gated |-> FALSE, role |-> "viewer", feature |-> None, from |-> from,
     hook |-> FALSE, resources |-> resources, buttons |-> buttons]

-----------------------------------------------------------------------------
(* Pages inside WorkspaceGate *)

OverviewPage == Gated("viewer", None, {"filtered"}, {})

\* The list by its filters, and what the filters offer.  That no campaigns are
\* offered where they were asked for before the entitlements came is left out: of
\* a resource only its workspace and its query are followed.
QRCodesList == {"filtered", "fixed"}

\* Pausing one code names the code alone; all that is done to the selection
\* names the workspace too.
QRCodesSelection == {Button("first", "editor", None, "reload"),
                     Button("first", "admin", None, "reload")}
QRCodesToggle == {Button("none", "editor", None, "reload")}
QRCodesPage == Gated("viewer", None, QRCodesList, QRCodesSelection \cup QRCodesToggle)

CampaignsForm == {Button("first", "editor", None, "reload")}
CampaignsDelete == {Button("first", "editor", None, "reload")}
CampaignsPage == Gated("viewer", "campaigns", {"filtered"},
                       CampaignsForm \cup CampaignsDelete)

AnalyticsExport == {Button("first", "viewer", "exports", "keep")}
AnalyticsPage == Gated("viewer", None, {"filtered"}, AnalyticsExport)

TeamLists == {"fixed"}
TeamMembers == {Button("first", "admin", None, "reload")}
TeamInvites == {Button("first", "admin", None, "reload")}
TeamPage == Gated("viewer", None, TeamLists, TeamMembers \cup TeamInvites)

WebhooksForm == {Button("first", "admin", None, "reload")}
\* Pause, delete and test load the list again; the deliveries do not.
WebhooksList == {Button("first", "admin", None, after) : after \in Afters}
WebhooksPage == Gated("admin", "webhooks", {"fixed"},
                      WebhooksForm \cup WebhooksList)

AuditLogExport == {Button("first", "admin", "exports", "keep")}
AuditLogPage == Gated("admin", "audit_log", {"filtered"}, AuditLogExport)

-----------------------------------------------------------------------------
(* Pages that call fetch themselves *)

CreateFolders == {"fixed"}
CreateSubmit == {Button("active", "editor", None, "keep")}
CreateQRPage == Plain("store", CreateFolders, CreateSubmit)

ReportsPage == Plain("store", {}, {Button("active", "viewer", None, "keep")})

\* A hook is connected by the card of its integration.
IntegrationCard == {Button("taken", "viewer", None, "keep")}
IntegrationsPage == Plain("copied", {"fixed"}, IntegrationCard)

LeadsLists == {"fixed"}
LeadsPages == {Button("taken", "viewer", None, "keep")}
LeadCapturePage == Plain("first", LeadsLists, LeadsPages)

\* Creating and deleting a workspace are actions of WorkspacePages.
SettingsPage == Plain("first", {"fixed"}, {Button("taken", "viewer", None, "keep")})

\* The forms of the brand and of the single sign-on.
BrandingLoad == {"fixed"}
BrandingForms == {Button("taken", "viewer", None, "keep")}
BrandingPage == Plain("saved", BrandingLoad, BrandingForms)

\* The upload does not name the workspace the page took for it.
BulkUpload == {Button("none", "viewer", None, "keep")}
BulkPage == Plain("saved", {}, BulkUpload)

EditRecord == {"fixed"}
EditSave == {Button(to, "viewer", None, "keep") : to \in {"taken", "loaded"}}
EditQRPage == Plain("savedNow", EditRecord, EditSave)

CodeRecord == {"fixed"}
CodeSave == {Button("taken", "viewer", None, "keep")}
QRCodePage == Plain("savedNow", CodeRecord, CodeSave)

-----------------------------------------------------------------------------
(* Pages of the account *)

HistoryPage == Plain("account", {"filtered"}, {})

SummaryPage == Plain("account", {"fixed"}, {})

\* Profile, password, checkout and cancellation.
ProfileForms == {Button("none", "viewer", None, "keep")}
ProfilePage == Plain("account", {"fixed"}, ProfileForms)

APIKeyPage == Plain("account", {"fixed"}, {Button("none", "viewer", None, "keep")})

-----------------------------------------------------------------------------

Page == [overview |-> OverviewPage, qrCodes |-> QRCodesPage, campaigns |-> CampaignsPage,
         analytics |-> AnalyticsPage, team |-> TeamPage, webhooks |-> WebhooksPage,
         auditLog |-> AuditLogPage, create |-> CreateQRPage, reports |-> ReportsPage,
         integrations |-> IntegrationsPage, leads |-> LeadCapturePage,
         settings |-> SettingsPage, branding |-> BrandingPage, bulk |-> BulkPage,
         edit |-> EditQRPage, code |-> QRCodePage, history |-> HistoryPage,
         summary |-> SummaryPage, profile |-> ProfilePage, apiKeys |-> APIKeyPage]

PageType == [gated : BOOLEAN, role : Roles, feature : Features \cup {None},
             from : Sources, hook : BOOLEAN, resources : SUBSET Resources,
             buttons : SUBSET Buttons]
=============================================================================
