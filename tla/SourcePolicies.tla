--------------------------- MODULE SourcePolicies ---------------------------
(***************************************************************************)
(* What the source policy lets through: the manifests the code declares,   *)
(* the rows that releases store of them, the kill switches of the          *)
(* environment, and the four ways in which the program asks.               *)
(*                                                                         *)
(* A manifest has sets of what it allows; its origins are its domains, and *)
(* the texts for people are left out.  A release is the sequence of        *)
(* manifests its seed inserts, one statement at a time.                    *)
(***************************************************************************)
EXTENDS Naturals, Sequences, FiniteSets, FiniteSetsExt

CONSTANTS
  None,
  Releases,            \* release -> the manifests it seeds, in order
  Keys,                \* kill switches an operator may set
  MaxSteps

VARIABLES
  stored,              \* source_policy_manifests: a set of rows
  seeding,             \* None, or the release and the position of its seed
  switches,            \* VERA_ACTIVE_KILL_SWITCHES
  steps

vars == <<stored, seeding, switches, steps>>

-----------------------------------------------------------------------------
(* The manifests of the code *)
Personal(connector, operation, domain) ==
  [connector |-> connector, version |-> 1, mode |-> "local_browser", state |-> "experimental_personal", enabled |-> FALSE,
   execution |-> "manual", capabilities |-> {"browser.capture"}, operations |-> {operation}, domains |-> {domain},
   methods |-> {"GET"}, session |-> TRUE, approval |-> TRUE, interval |-> None, class |-> "third_party",
   global |-> "browser.disabled", key |-> connector]

Open(connector, mode, state, capability, operation, domain) ==
  [Personal(connector, operation, domain) EXCEPT
     !.mode = mode, !.state = state, !.enabled = TRUE, !.capabilities = {capability}, !.approval = FALSE,
     !.global = "integrations.disabled"]

Inert(m, class) == [m EXCEPT !.domains = {}, !.methods = {}, !.session = FALSE, !.class = class]

FixtureFeed == Inert(Open("fixture.feed.v1", "fixture", "approved", "fixture.read", "fixture.read_sanitized", None), "synthetic")
ManualCapture ==
  Inert(Open("manual.capture.v1", "user_capture", "user_triggered_only", "manual.capture", "capture.user_supplied", None),
        "user_supplied")
GoogleCalendar ==
  [Open("google.calendar.v1", "official_api", "user_triggered_only", "calendar.hold.create",
        "calendar.hold.create_tentative", "www.googleapis.com") EXCEPT !.approval = TRUE, !.methods = {"POST"}]
GmailAlerts ==
  [Open("google.gmail.listing-alerts.v1", "email_alert", "approved", "gmail.alert.read", "gmail.alert.read_configured",
        "gmail.googleapis.com") EXCEPT !.execution = "scheduled", !.interval = 300]
RentCast ==
  Open("rentcast.rental-listings.v1", "official_api", "user_triggered_only", "structured_feed.read",
       "rentcast.rental_listings.search", "api.rentcast.io")
ZillowCurrentTab == Personal("zillow.current-tab.v1", "capture.current_tab", "www.zillow.com")
ZillowResearch == Personal("zillow.browser-research.v1", "zillow.rental_research.v1", "www.zillow.com")
ZillowGeneric == [Personal("zillow.browser-research.v2", "zillow.rental_research.v2", "www.zillow.com") EXCEPT !.version = 2]
Apartments == Personal("apartments-com.browser-research.v1", "apartments_com.rental_research.v1", "www.apartments.com")
Facebook == Personal("facebook-marketplace.browser-research.v1", "facebook_marketplace.rental_research.v1", "www.facebook.com")
OffCampus == Personal("offcampus-partners.browser-research.v1", "offcampus_partners.rental_research.v1", "offcampus.bu.edu")
Craigslist == Personal("craigslist.browser-research.v1", "craigslist.rental_research.v1", "www.craigslist.org")
GenericHousing ==
  [Personal("generic-housing.browser-research.v1", "generic_housing.rental_research.v1", None) EXCEPT !.domains = {}, !.methods = {}]

InitialLocal ==
  {FixtureFeed, ManualCapture, GmailAlerts, GoogleCalendar, RentCast, ZillowCurrentTab, ZillowResearch, ZillowGeneric,
   Apartments, Facebook, OffCampus, GenericHousing, Craigslist}

Browsers == {m \in InitialLocal : m.mode = "local_browser"}

\* The label of a source without a connector, as the fixtures declare it.
DisabledLabel(source) ==
  [Personal("fixture-label-" \o source, None, None) EXCEPT
     !.mode = "fixture", !.state = "disabled", !.capabilities = {}, !.operations = {}, !.domains = {}, !.methods = {},
     !.class = "synthetic", !.global = "integrations.disabled", !.key = "integrations.legacy_source_labels"]

ValidManifest(m) ==
  /\ m.version \in Nat \ {0}
  /\ m.execution = "scheduled" => m.interval # None
  /\ m.mode = "fixture" => m.class = "synthetic"
  /\ m.state = "disabled" => ~m.enabled
  /\ m.state = "user_triggered_only" => m.execution = "manual"
  /\ m.state = "experimental_personal" => m.mode = "local_browser"

SourcePoliciesAssumption ==
  /\ \A m \in InitialLocal : ValidManifest(m)
  /\ \A r \in DOMAIN Releases : \A i \in DOMAIN Releases[r] : ValidManifest(Releases[r][i])
  /\ MaxSteps \in Nat

-----------------------------------------------------------------------------
(* The registry *)

\* Faulty: the first version of a connector that is found.
OldestOf(manifests, connector) ==
  LET own == {m \in manifests : m.connector = connector}
  IN IF own = {} THEN None ELSE CHOOSE m \in own : \A n \in own : m.version <= n.version

LatestOf(manifests, connector) ==
  LET own == {m \in manifests : m.connector = connector}
  IN IF own = {} THEN None ELSE CHOOSE m \in own : \A n \in own : m.version >= n.version

\* A registry built from manifests of which two have one version is invalid.
Unique(manifests) == \A m, n \in manifests : m.connector = n.connector /\ m.version = n.version => m = n

\* The refusals of a manifest, each with its place in the order of evaluation.
Refusals(m, off, r) ==
  LET network == m.domains # {} \/ m.methods # {}
      when(cond, order, why) == IF cond THEN {<<order, why>>} ELSE {}
  IN when(m.mode # r.mode, 1, "acquisition_mode_mismatch")
       \cup when(m.state = "disabled", 2, "policy_state_disabled")
       \cup when(m.state = "user_triggered_only" /\ r.execution # "manual", 3, "policy_state_disallows_execution")
       \cup when(m.state = "experimental_personal" /\ ~m.enabled, 4, "connector_disabled")
       \cup when(m.global \in off, 5, "global_kill_switch_active")
       \cup when(m.key \in off, 6, "connector_kill_switch_active")
       \cup when(~m.enabled, 7, "connector_disabled")
       \cup when(r.capability \notin m.capabilities, 8, "capability_not_allowed")
       \cup when(m.execution # r.execution, 9, "execution_not_allowed")
       \cup when(r.operation \notin m.operations, 10, "operation_not_allowed")
       \cup when(r.domain = None /\ network, 11, "network_required")
       \cup when(r.domain # None /\ ~network, 12, "network_not_allowed")
       \cup when(r.domain # None /\ r.domain \notin m.domains, 13, "origin_not_allowed")
       \cup when(r.domain # None /\ r.method \notin m.methods, 15, "method_not_allowed")
       \cup when(m.session /\ ~r.session, 16, "user_session_required")
       \cup when(m.approval /\ ~r.approval, 17, "approval_required")

Evaluate(manifests, off, r) ==
  LET m == LatestOf(manifests, r.connector)
  IN IF ~Unique(manifests) THEN "policy_error"
     ELSE IF m = None THEN "unregistered_connector"
     ELSE IF Refusals(m, off, r) = {} THEN "authorized"
     ELSE (CHOOSE x \in Refusals(m, off, r) : \A y \in Refusals(m, off, r) : x[1] <= y[1])[2]

-----------------------------------------------------------------------------
(* Who asks *)

\* A request for what a manifest declares, with the domain, the session, the
\* approval and the trigger it comes with.
One(s, other) == IF s = {} THEN other ELSE CHOOSE x \in s : TRUE

RequestOf(m, domain, session, approval, execution) ==
  [connector |-> m.connector, mode |-> m.mode, execution |-> execution, capability |-> One(m.capabilities, None),
   operation |-> One(m.operations, None), domain |-> domain, method |-> IF domain = None THEN None ELSE One(m.methods, "GET"),
   session |-> session, approval |-> approval]

\* Captures, holds, live search and the retry of other source jobs ask what is stored.
AskStored(r) == Evaluate(stored, switches, r)

\* Faulty: the flags enable what they should disable.
AskGmailUnlessOff(r) == Evaluate({GmailAlerts}, {GmailAlerts.key, GmailAlerts.global} \ switches, r)

\* The alert lane asks the manifest it was compiled with; its own flags are the switches.
AskGmail(r) == Evaluate({GmailAlerts}, switches \cap {GmailAlerts.key, GmailAlerts.global}, r)

\* Faulty: who activates an experiment has approved it.
ActivatedAndApproved(m) == [m EXCEPT !.enabled = TRUE, !.approval = FALSE]

\* A browser policy may flip only the bit that disables its manifest at rest.
Activated(m) == [m EXCEPT !.enabled = TRUE]

\* The dispatch of a current-tab capture asks with the switches,
\* the policies of the worker and of the research tools without.
AskDispatch(r) == Evaluate({Activated(ZillowCurrentTab)}, switches, r)
AskCurrentTab(r) == Evaluate({Activated(ZillowCurrentTab)}, {}, r)
AskResearch(m, configured, r) ==
  Evaluate({IF configured = None THEN Activated(m)
            ELSE [Activated(m) EXCEPT !.domains = {configured}, !.methods = {"GET"}]}, {}, r)

-----------------------------------------------------------------------------
Init == stored = {} /\ seeding = None /\ switches = {} /\ steps = 0

Step == steps < MaxSteps /\ steps' = steps + 1

\* A release is deployed, or an older one again; its seed begins.
Deploy(release) ==
  /\ seeding = None /\ Step
  /\ seeding' = [release |-> release, next |-> 1]
  /\ UNCHANGED <<stored, switches>>

\* Faulty: the primary key is forgotten.
InsertAnyway(m) == stored' = stored \cup {m}

\* Faulty: a version that exists is overwritten.
InsertOver(m) ==
  stored' = {n \in stored : n.connector # m.connector \/ n.version # m.version} \cup {m}

Insert(m) == stored' = IF \E n \in stored : n.connector = m.connector /\ n.version = m.version THEN stored ELSE stored \cup {m}

Conflicts(m) == \E n \in stored : n.connector = m.connector /\ n.version = m.version /\ n # m

\* One insert of the seed; a version with different content ends it.
Seed ==
  /\ seeding # None
  /\ LET rows == Releases[seeding.release]
     IN /\ Insert(rows[seeding.next])
        /\ seeding' = IF Conflicts(rows[seeding.next]) \/ seeding.next = Len(rows) THEN None
                      ELSE [seeding EXCEPT !.next = @ + 1]
  /\ UNCHANGED <<switches, steps>>

\* An operator sets or clears a switch.
Switch(key) ==
  /\ Step
  /\ switches' = SymDiff(switches, {key})
  /\ UNCHANGED <<stored, seeding>>

Next ==
  \/ \E r \in DOMAIN Releases : Deploy(r)
  \/ Seed
  \/ \E k \in Keys : Switch(k)

Spec == Init /\ [][Next]_vars

-----------------------------------------------------------------------------
(* Properties *)
RequestsFor(m) ==
  {RequestOf(m, d, s, a, e) : d \in m.domains \cup {None, "example.org"}, s \in BOOLEAN, a \in BOOLEAN, e \in {"manual", "scheduled"}}
Reasons ==
  {"authorized", "unregistered_connector", "acquisition_mode_mismatch", "policy_state_disabled",
   "policy_state_disallows_execution", "global_kill_switch_active", "connector_kill_switch_active", "connector_disabled",
   "capability_not_allowed", "execution_not_allowed", "operation_not_allowed", "network_required", "network_not_allowed",
   "origin_not_allowed", "method_not_allowed", "user_session_required", "approval_required"}

\* What is stored is valid, has one row for a version, and no request is
\* answered with an error of the policy itself.
TypeOK ==
  /\ \A m \in stored : ValidManifest(m)
  /\ switches \subseteq Keys /\ steps \in 0 .. MaxSteps
  /\ seeding # None => seeding.next \in DOMAIN Releases[seeding.release]
  /\ Unique(stored)
  /\ \A m \in InitialLocal : AskStored(RequestOf(m, One(m.domains, None), TRUE, TRUE, m.execution)) \in Reasons

\* The content of a version never changes once it is stored, whatever release
\* is deployed over which.
VersionsNeverChange == [][stored \subseteq stored']_vars

\* When a release has stored a version that disables a connector, no older
\* release that is deployed again, half seeded or not, lets it through.
RetractionsHold ==
  \A m \in stored :
    (~m.enabled /\ \A n \in stored : n.connector = m.connector => n.version <= m.version) =>
      \A r \in RequestsFor(m) : AskStored(r) # "authorized"

\* Activating an experiment lets through what its manifest declares, in the
\* session and with the approval of the user, and never on a schedule.
ActivationWidensNothing ==
  \A m \in Browsers : \A configured \in {None} \cup (IF m = GenericHousing THEN {"example.org"} ELSE {}) : \A r \in RequestsFor(m) :
    (AskResearch(m, configured, r) = "authorized" \/ AskDispatch(r) = "authorized" \/ AskCurrentTab(r) = "authorized") =>
      /\ r.session /\ r.approval /\ r.execution = "manual"
      /\ r.domain \in m.domains \cup {configured}

\* A switch that is set only ever refuses more.
SwitchesOnlyRefuse ==
  [][switches \subseteq switches' /\ switches' # switches /\ stored' = stored =>
       \A m \in InitialLocal : \A r \in RequestsFor(m) :
         /\ AskStored(r)' = "authorized" => AskStored(r) = "authorized"
         /\ AskGmail(r)' = "authorized" => AskGmail(r) = "authorized"
         /\ AskDispatch(r)' = "authorized" => AskDispatch(r) = "authorized"]_vars
=============================================================================
