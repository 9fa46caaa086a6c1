------------------------------- MODULE Native --------------------------------
(***************************************************************************)
(* The native surface of the mobile app: app.config.ts as Expo resolves    *)
(* it, eas.json, the reviewed lists beside them, and the gates that hold   *)
(* them together: check-expo-policy, check-native-deps and, once its       *)
(* module is wired in, check-eas-update.                                   *)
(*                                                                         *)
(* `app' has one field per file or place a gate reads.  People change it;  *)
(* the gates run locally, where a stamp may spare them the work, and in    *)
(* CI, where none does.  A gate runs in one step: what edits during a run  *)
(* do to a stamp is VersionRamp's.                                         *)
(***************************************************************************)
EXTENDS Naturals, FiniteSets, FiniteSetsExt, TreeEdits

CONSTANTS
  Permissions,  \* Android permissions
  Plugins,      \* config plugins
  UsageKeys,    \* iOS purpose strings
  Tracking,     \* NSUserTrackingUsageDescription, one of UsageKeys
  Implied,      \* Plugins -> the purpose strings a plugin implies
  Signals,      \* trackingSdkSignals: plugins and dependencies that track
  Profiles,     \* names of build profiles
  Absent,       \* stands for what is not there
  MaxTouches    \* bound: edits of a pull request

ASSUME NativeAssumption ==
  /\ Tracking \in UsageKeys /\ MaxTouches \in Nat
  /\ IsFiniteSet(Profiles) /\ Absent # "yes"
  /\ \A p \in Plugins : Implied[p] \subseteq UsageKeys

NativeGates == {"native-deps", "expo-policy", "eas-update"}

VARIABLES
  app,      \* what the gates read: working tree, git index, installation
  stamps,   \* NativeGates -> {the inputs .harness/<gate>.ok is the digest of}
  local,    \* NativeGates -> the last local verdict on the tree as it stands
  ci,       \* CI's verdict on it
  touches   \* edits so far
nvars == <<app, stamps, local, ci, touches>>

-----------------------------------------------------------------------------
(***************************************************************************)
(* check-expo-policy: the resolved config against the reviewed files.      *)
(***************************************************************************)
\* Every site pins what the lock pins, the update URL at least mentions it.
Identity(t) ==
  /\ t.config.bundleId = t.lock.id /\ t.config.package = t.lock.id
  /\ t.config.scheme = t.lock.scheme /\ t.config.project = t.lock.project
  /\ t.config.url # Absent => t.config.url.project = t.lock.project

Engine(t) ==
  t.config.runtime = "appVersion" /\ t.config.slips \cap {"old architecture", "no hermes"} = {}

\* A cleartext opt-in counts wherever it stands, a plugin's options included.
Transport(t) ==
  /\ t.config.slips \cap {"arbitrary loads", "exception domain", "cleartext"} = {}
  /\ t.config.origin \in {"https", "loopback"}

\* A row without a reason is refused, and counts as no row.
Reviewed(rows) == {x \in DOMAIN rows : rows[x]}
Reasoned(rows) == Reviewed(rows) = DOMAIN rows
\* The list and what is granted agree in both directions.
Lockstep(rows, granted) == Reasoned(rows) /\ Reviewed(rows) = granted

NoSecretExtra(t) == "secret extra" \notin t.config.slips
PublicEnvNames(t) == ~t.sources.secret

\* Both native launch frames paint the generated dark canvas.
SplashLockstep(t) ==
  /\ t.tokens # Absent
  /\ t.config.splash = t.tokens /\ t.config.adaptive = t.tokens

EasJson(t) ==
  /\ t.eas.source = "local" /\ ~t.eas.secret
  /\ "production" \in DOMAIN t.eas.build
  /\ LET prod == t.eas.build["production"]
     IN /\ "distribution" \in DOMAIN prod => prod["distribution"] = "store"
        /\ "autoIncrement" \in DOMAIN prod => ~prod["autoIncrement"]

-----------------------------------------------------------------------------
(***************************************************************************)
(* check-expo-policy: store readiness, by tools/store-policy.json.  A      *)
(* malformed policy ends the gate, so no check is switched off by one.     *)
(***************************************************************************)
Says(t, key) == key \in DOMAIN t.config.usage /\ t.config.usage[key] = "sentence"

UsageDescriptions(t) ==
  LET declared == DOMAIN t.config.usage
  IN /\ Lockstep(t.usageRows, declared)
     /\ \A key \in declared : Says(t, key)
     /\ \A p \in t.config.plugins : Implied[p] \subseteq declared

ExportCompliance(t) ==
  /\ t.config.encryption \in BOOLEAN
  /\ t.config.encryption => t.policy.nonExemptAllowed

PrivacyManifests(t) ==
  IF t.config.privacy = Absent THEN t.policy.privacyRows = {}
  ELSE t.config.privacy.categories = t.policy.privacyRows

\* Wrong: a tracking SDK is looked for among the plugins only.
WrongTrackers(t) == Signals \cap t.config.plugins
\* trackingSdkSignals that are a plugin or a dependency here.
Trackers(t) == Signals \cap (t.config.plugins \cup t.deps.names)
ClaimsTracking(t) == t.config.privacy # Absent /\ t.config.privacy.tracking
TrackingAgrees(t) ==
  IF Trackers(t) = {} THEN Tracking \notin DOMAIN t.config.usage /\ ~ClaimsTracking(t)
  ELSE Says(t, Tracking) /\ ClaimsTracking(t)

\* The declared target, or else the pinned one of this SDK, none if unknown.
TargetSdk(t) ==
  IF t.config.target # 0 THEN t.config.target
  ELSE IF t.deps.sdk \in DOMAIN t.policy.sdkDefaults THEN t.policy.sdkDefaults[t.deps.sdk] ELSE 0
TargetFloor(t) == TargetSdk(t) # 0 /\ TargetSdk(t) >= t.policy.floor

\* A PNG of the right size; the marketing icon opaque; no flat colour once the
\* policy says so.
IconOk(t, site) ==
  LET art == t.assets[site]
  IN /\ art \notin {"missing", "broken"}
     /\ site \in {"icon", "adaptive"} => art # "small"
     /\ site = "icon" => art # "alpha"
     /\ t.policy.escalate => art # "flat"
IconIntegrity(t) == \A site \in DOMAIN t.assets : IconOk(t, site)

\* An app with a sign-in deletes accounts, unless a reviewed escape says how.
AccountDeletion(t) ==
  t.sources.auth /\ t.policy.deletion \in {"action", "route"} =>
    /\ t.policy.deletion = "action" => t.registry
    /\ t.policy.deletion = "route" => t.sources.route
    /\ t.openapi

StoreReady(t) ==
  /\ t.policy.wellFormed
  /\ UsageDescriptions(t) /\ ExportCompliance(t) /\ PrivacyManifests(t)
  /\ TrackingAgrees(t) /\ TargetFloor(t) /\ IconIntegrity(t)

\* What the declared inputs decide, and all of the gate.
SurfacePolicy(t) ==
  /\ Identity(t) /\ Engine(t) /\ Transport(t)
  /\ Lockstep(t.permissionRows, t.config.permissions) /\ Lockstep(t.pluginRows, t.config.plugins)
  /\ NoSecretExtra(t) /\ SplashLockstep(t) /\ EasJson(t) /\ StoreReady(t)
ExpoPolicy(t) == SurfacePolicy(t) /\ PublicEnvNames(t) /\ AccountDeletion(t)

-----------------------------------------------------------------------------
(***************************************************************************)
(* check-native-deps, and the assertion it shares with check-expo-policy.  *)
(***************************************************************************)
\* apps/mobile/{android,ios}: nothing tracked, both ignored.
CngPure(t) == ~t.index.tracked /\ t.index.ignored
NativeFiles(t) == CngPure(t) /\ Reasoned(t.pluginRows) /\ t.localPlugins # "untested"
VersionsAligned(t) == t.deps.aligned

-----------------------------------------------------------------------------
(***************************************************************************)
(* check-eas-update.                                                       *)
(***************************************************************************)
\* The profile k steps of `extends' above n, or Absent.
Above(ps, n) ==
  LET up[k \in 0..Cardinality(Profiles)] ==
        IF k = 0 THEN n
        ELSE IF up[k-1] \in DOMAIN ps /\ "extends" \in DOMAIN ps[up[k-1]]
             THEN ps[up[k-1]]["extends"] ELSE Absent
  IN up

\* resolveField: the walk ends where the profile is missing, sets the field or
\* extends nothing; one that does not end goes round in a circle.
ResolveField(ps, n, field) ==
  LET up   == Above(ps, n)
      ends == {k \in DOMAIN up :
                 \/ up[k] \notin DOMAIN ps
                 \/ field \in DOMAIN ps[up[k]] \/ "extends" \notin DOMAIN ps[up[k]]}
      at   == up[Min(ends)]
  IN IF ends = {} \/ at \notin DOMAIN ps THEN "error"
     ELSE IF field \in DOMAIN ps[at] THEN ps[at][field] ELSE Absent

Parents(ps) == {ps[n]["extends"] : n \in {m \in DOMAIN ps : "extends" \in DOMAIN ps[m]}}

\* A profile that builds: nobody extends it, and it is no dev client.
Channelled(ps, n) ==
  LET dev == ResolveField(ps, n, "developmentClient")
      channel == ResolveField(ps, n, "channel")
  IN dev # "error" /\ (dev # "yes" => channel \notin {"error", Absent, ""})
Channels(t) ==
  /\ DOMAIN t.eas.build # {}
  /\ \A n \in DOMAIN t.eas.build \ Parents(t.eas.build) : Channelled(t.eas.build, n)

UpdatesUrl(t) ==
  /\ t.lock.project # "TBD"
  /\ t.config.url = [project |-> t.lock.project, exact |-> TRUE]

\* With no sign of updates at all the gate has nothing to do yet.
HasOtaSurface(t) ==
  \/ t.config.url # Absent \/ "expo-updates" \in t.deps.names
  \/ \E n \in DOMAIN t.eas.build : "channel" \in DOMAIN t.eas.build[n]
EasUpdate(t) ==
  /\ "expo-updates" \in t.deps.names /\ t.config.runtime = "appVersion"
  /\ UpdatesUrl(t) /\ Channels(t)

-----------------------------------------------------------------------------
(***************************************************************************)
(* A gate: its stamp, and how it ends.                                     *)
(***************************************************************************)
\* Wrong: eas.json is not among the inputs of expo-policy.
WrongDeclared(g, t) ==
  CASE g = "expo-policy" -> <<t.config, t.deps, t.lock, t.permissionRows, t.pluginRows,
                              t.usageRows, t.tokens, t.policy, t.assets, t.registry, t.openapi>>
    [] g = "native-deps" -> <<t.deps, t.pluginRows>>
    [] OTHER             -> <<t.config, t.deps, t.eas, t.lock>>
\* The inputs a gate's stamp is the digest of.  The resolved config counts as one:
\* its text is app.config.ts, which a list names; the code of a local plugin that
\* expo config executes (apps/mobile/plugins) is in no list and is held fixed.
Declared(g, t) ==
  CASE g = "expo-policy" -> <<t.config, t.deps, t.lock, t.permissionRows, t.pluginRows, t.usageRows,
                              t.eas, t.tokens, t.policy, t.assets, t.registry, t.openapi>>
    [] g = "native-deps" -> <<t.deps, t.pluginRows>>
    [] OTHER             -> <<t.config, t.deps, t.eas, t.lock>>

\* Checked on every run: git's index is not in any file that could be hashed.
BeforeStamp(g, t) ==
  CASE g = "expo-policy" -> CngPure(t)
    [] g = "native-deps" -> NativeFiles(t)
    [] OTHER             -> TRUE
AfterStamp(g, t) ==
  CASE g = "expo-policy" -> ExpoPolicy(t)
    [] g = "native-deps" -> VersionsAligned(t)
    [] OTHER             -> EasUpdate(t)

Skips(g, t) == ~t.installed
SkipsLate(g, t) == g = "eas-update" /\ ~HasOtaSurface(t)

Passes(g, t) == BeforeStamp(g, t) /\ AfterStamp(g, t)

LocalRun(g) ==
  /\ local[g] = "none"
  /\ LET warm == Declared(g, app) \in stamps[g]
         verdict == IF Skips(g, app) THEN "skipped"
                    ELSE IF ~BeforeStamp(g, app) THEN "red"
                    ELSE IF warm THEN "green"
                    ELSE IF SkipsLate(g, app) THEN "skipped"
                    ELSE IF AfterStamp(g, app) THEN "green" ELSE "red"
     IN /\ local' = [local EXCEPT ![g] = verdict]
        /\ stamps' = IF verdict = "green" THEN [stamps EXCEPT ![g] = {Declared(g, app)}] ELSE stamps
  /\ UNCHANGED <<app, ci, touches>>

\* A fresh checkout: no stamp counts, and a skip is a failure.
Required(t) == {"native-deps", "expo-policy"} \cup (IF t.wired THEN {"eas-update"} ELSE {})
CiRun ==
  /\ ci = "none"
  /\ ci' = IF \A g \in Required(app) : ~Skips(g, app) /\ ~SkipsLate(g, app) /\ Passes(g, app)
           THEN "green" ELSE "red"
  /\ UNCHANGED <<app, stamps, local, touches>>

-----------------------------------------------------------------------------
(***************************************************************************)
(* A pull request.                                                         *)
(***************************************************************************)
Slips == {"old architecture", "no hermes", "arbitrary loads", "exception domain",
          "cleartext", "secret extra"}
Colours == {"dark", "darker"}
Ids == {"ours", "other"}
Edited(c) == app' = [app EXCEPT !.config = c]

EditIdentity ==
  \/ \E id \in Ids : \/ Edited([app.config EXCEPT !.bundleId = id])
                     \/ Edited([app.config EXCEPT !.package = id])
                     \/ Edited([app.config EXCEPT !.scheme = id])
                     \/ app' = [app EXCEPT !.lock.id = id]
                     \/ app' = [app EXCEPT !.lock.scheme = id]
  \/ \E p \in {"TBD", "real", "other"} :
       \/ Edited([app.config EXCEPT !.project = p])
       \/ app' = [app EXCEPT !.lock.project = p]
       \/ \E exact \in BOOLEAN : Edited([app.config EXCEPT !.url = [project |-> p, exact |-> exact]])
  \/ Edited([app.config EXCEPT !.url = Absent])

EditConfig ==
  \/ \E s \in Slips : Edited([app.config EXCEPT !.slips = Toggled(@, s)])
  \/ \E r \in {"appVersion", "fingerprint"} : Edited([app.config EXCEPT !.runtime = r])
  \/ \E o \in {"https", "loopback", "http"} : Edited([app.config EXCEPT !.origin = o])
  \/ \E p \in Permissions : Edited([app.config EXCEPT !.permissions = Toggled(@, p)])
  \/ \E p \in Plugins : Edited([app.config EXCEPT !.plugins = Toggled(@, p)])
  \/ \E key \in UsageKeys :
       \/ \E v \in {"sentence", "TODO"} : Edited([app.config EXCEPT !.usage = With(@, key, v)])
       \/ Edited([app.config EXCEPT !.usage = Less(@, key)])
  \/ \E e \in BOOLEAN \cup {Absent} : Edited([app.config EXCEPT !.encryption = e])
  \/ \E tracks \in BOOLEAN, c \in {{}, {"disk space"}} :
       Edited([app.config EXCEPT !.privacy = [categories |-> c, tracking |-> tracks]])
  \/ \E n \in {0, 34, 36} : Edited([app.config EXCEPT !.target = n])
  \/ \E c \in Colours : \/ Edited([app.config EXCEPT !.splash = c])
                        \/ Edited([app.config EXCEPT !.adaptive = c])

EditReviewed ==
  \/ \E p \in Permissions, ok \in BOOLEAN : app' = [app EXCEPT !.permissionRows = With(@, p, ok)]
  \/ \E p \in Plugins, ok \in BOOLEAN : app' = [app EXCEPT !.pluginRows = With(@, p, ok)]
  \/ \E k \in UsageKeys, ok \in BOOLEAN : app' = [app EXCEPT !.usageRows = With(@, k, ok)]
  \/ \E p \in Permissions : app' = [app EXCEPT !.permissionRows = Less(@, p)]
  \/ \E p \in Plugins : app' = [app EXCEPT !.pluginRows = Less(@, p)]
  \/ \E k \in UsageKeys : app' = [app EXCEPT !.usageRows = Less(@, k)]
  \/ \E d \in {"action", "route", "external"} : app' = [app EXCEPT !.policy.deletion = d]
  \/ app' = [app EXCEPT !.policy.escalate = ~@]
  \/ app' = [app EXCEPT !.policy.wellFormed = ~@]
  \/ app' = [app EXCEPT !.policy.nonExemptAllowed = ~@]
  \/ app' = [app EXCEPT !.policy.privacyRows = Toggled(@, "disk space")]

EditProfiles ==
  \/ \E n \in Profiles, f \in {"extends", "channel", "developmentClient", "distribution"} :
       /\ n \in DOMAIN app.eas.build
       /\ \/ \E v \in CASE f = "extends" -> Profiles [] f = "channel" -> {"", "live"}
                        [] f = "distribution" -> {"store", "internal"} [] OTHER -> {"yes", "no"} :
               app' = [app EXCEPT !.eas.build[n] = With(@, f, v)]
          \/ app' = [app EXCEPT !.eas.build[n] = Less(@, f)]
  \/ \E n \in Profiles : \/ app' = [app EXCEPT !.eas.build = With(@, n, <<>>)]
                         \/ app' = [app EXCEPT !.eas.build = Less(@, n)]
  \/ app' = [app EXCEPT !.eas.source = "remote"]
  \/ app' = [app EXCEPT !.eas.secret = ~@]

EditPlaces ==
  \/ \E c \in Colours \cup {Absent} : app' = [app EXCEPT !.tokens = c]
  \/ \E n \in Signals \cup {"expo-updates"} : app' = [app EXCEPT !.deps.names = Toggled(@, n)]
  \/ \E s \in {57, 58} : app' = [app EXCEPT !.deps.sdk = s]
  \/ app' = [app EXCEPT !.deps.aligned = ~@]
  \/ \E site \in DOMAIN app.assets, art \in {"art", "missing", "broken", "small", "alpha", "flat"} :
       app' = [app EXCEPT !.assets[site] = art]
  \/ \E place \in {"registry", "openapi", "installed", "wired"} : app' = [app EXCEPT ![place] = ~@]
  \/ \E place \in {"secret", "auth", "route"} : app' = [app EXCEPT !.sources[place] = ~@]
  \/ \E place \in {"tracked", "ignored"} : app' = [app EXCEPT !.index[place] = ~@]
  \/ \E p \in {"none", "tested", "untested"} : app' = [app EXCEPT !.localPlugins = p]

EditNative ==
  /\ touches < MaxTouches /\ touches' = touches + 1
  /\ EditIdentity \/ EditConfig \/ EditReviewed \/ EditProfiles \/ EditPlaces
  /\ app' # app
  /\ local' = [g \in NativeGates |-> "none"] /\ ci' = "none"
  /\ UNCHANGED stamps

\* An app that no gate has seen yet, after some of its edits.
NativeInit ==
  /\ stamps = [g \in NativeGates |-> {}] /\ local = [g \in NativeGates |-> "none"]
  /\ ci = "none" /\ touches \in 0..MaxTouches

NativeNext == EditNative \/ (\E g \in NativeGates : LocalRun(g)) \/ CiRun

NativeSpec == NativeInit /\ [][NativeNext]_nvars

-----------------------------------------------------------------------------
(***************************************************************************)
(* Properties.                                                             *)
(***************************************************************************)
\* gate.mjs:169-175, stamp-inputs.mjs: a local green, warm stamp or not, says
\* of the tree as it stands what the gate would say of its declared inputs,
\* and of the git index, which no stamp covers.
GreenIsCurrent ==
  /\ local["expo-policy"] = "green" => SurfacePolicy(app) /\ CngPure(app)
  /\ local["native-deps"] = "green" => VersionsAligned(app) /\ NativeFiles(app)
  /\ local["eas-update"] = "green" => EasUpdate(app)

\* stamp-inputs.mjs:1-4: a local green of expo-policy is what the whole gate
\* would say of the tree as it stands.
PolicyStampHolds == local["expo-policy"] = "green" => ExpoPolicy(app)

\* n and what it extends at any remove, up to the first that sets the field; and
\* the value the binary of n gets, if it gets one.
Line(ps, n, field) ==
  LET Upward(S) ==
        \A m \in S : /\ field \notin DOMAIN ps[m]
                     /\ "extends" \in DOMAIN ps[m] /\ ps[m]["extends"] \in DOMAIN ps
                     => ps[m]["extends"] \in S
  IN {m \in DOMAIN ps : \A S \in SUBSET DOMAIN ps : n \in S /\ Upward(S) => m \in S}
Inherited(ps, n, field) ==
  {ps[m][field] : m \in {l \in Line(ps, n, field) : field \in DOMAIN ps[l]}}

\* check-expo-policy.mjs:47-57, check-eas-update.mjs:7-20: what a green chain
\* lets ship. Plugins, purpose strings and tracking tell one story; the launch
\* frame is one colour; every binary of an updatable app hears one project, on
\* a channel it really gets: the first its line of profiles sets, not one that a
\* nearer profile takes back, nor one behind a circle or a missing profile.
SurfaceAgrees ==
  ci = "green" =>
    /\ \A p \in app.config.plugins : \A key \in Implied[p] : Says(app, key) /\ app.usageRows[key]
    /\ (Signals \cap (app.config.plugins \cup app.deps.names) # {}) <=> ClaimsTracking(app)
    /\ ClaimsTracking(app) <=> Tracking \in DOMAIN app.config.usage
    /\ {app.config.splash, app.config.adaptive} = {app.tokens}
    /\ app.wired =>
         /\ app.config.url.project = app.config.project /\ "expo-updates" \in app.deps.names
         /\ LET ps == app.eas.build IN
            \A n \in DOMAIN ps \ Parents(ps) :
              \/ "yes" \in Inherited(ps, n, "developmentClient")
              \/ Inherited(ps, n, "channel") \ {""} # {}

=============================================================================
