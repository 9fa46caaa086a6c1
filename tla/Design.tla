------------------------------- MODULE Design --------------------------------
(***************************************************************************)
(* The design system as data: tools/styleguide.manifest.json, the token    *)
(* module gen-theme.mjs compiles from it, and the sources that may take    *)
(* their looks from nowhere else (check-styleguide-manifest).              *)
(*                                                                         *)
(* A colour is its luminance on a fine scale; the module keeps a byte, two *)
(* steps of that scale. A source is the set of things the scans look for.  *)
(***************************************************************************)
EXTENDS Naturals, FiniteSets, TreeEdits

CONSTANTS
  Tokens,        \* names tokens may have
  Themes,        \* names themes may have
  Inks,          \* luminances, even the least one readable on some ground
  OutOfGamut,    \* a colour the platform would map to another
  Pairs,         \* contrast pairs [fg, bg, min] a manifest may list
  StatusTokens,  \* statusSurfaces.tokens
  Sources,       \* files under apps/mobile/{src,app}, those of src/theme left out
  Home,          \* those of them in the components home
  TouchableBase, \* the touchable base, one of Home
  Seam,          \* lib/motion.ts, not a .tsx
  MaxChanges     \* bound: changes of a pull request

ASSUME DesignAssumption ==
  /\ Inks \subseteq Nat /\ OutOfGamut \notin Inks /\ \A pair \in Pairs : pair.min \in Nat
  /\ Home \subseteq Sources /\ TouchableBase \in Home /\ Seam \in Sources \ Home

\* What the scans find in a source: raw colours and dimensions, numbers in an
\* inline style, literal durations, Animated or Easing, shadow keys, a styled
\* pressable or other control, sizes.minTarget, a status signal, a status token,
\* the accent.
Controls == {"pressable", "input"}
Marks == {"raw", "inline", "duration", "animated", "shadow",
          "minTarget", "signal", "status", "accent"} \cup Controls

\* Sections a manifest may leave out: their scans are then off.
Sections == {"motionSeam", "elevation", "sizing", "controlPrimitives", "base", "statusSurfaces"}

\* A manifest, its themes the colours of some tokens.
Palettes == UNION {[S -> Inks \cup {OutOfGamut}] : S \in SUBSET Tokens}
Manifest ==
  [tokens : SUBSET Tokens, themes : UNION {[T -> Palettes] : T \in SUBSET Themes},
   contrast : SUBSET Pairs, paired : BOOLEAN, sections : SUBSET Sections,
   allow : SUBSET Sources, controlAllow : SUBSET Sources, statusAllow : SUBSET Sources,
   accentBudget : Nat]

VARIABLES
  manifest,   \* the manifest
  module,     \* tokens.gen.ts, or Missing
  source,     \* what the scans find in each source
  review,     \* the verdict: "none", "green", "red"
  changes     \* changes of the pull request
dvars == <<manifest, module, source, review, changes>>

Missing == [palettes |-> <<>>, sections |-> {"missing"}]

-----------------------------------------------------------------------------
(***************************************************************************)
(* gen-theme.mjs.                                                          *)
(***************************************************************************)
InGamut(ink) == ink # OutOfGamut
Byte(ink) == ink \div 2
Distance(a, b) == IF a > b THEN a - b ELSE b - a
Clears(m, th, pair) ==
  LET ink == m.themes[th]
  IN /\ {pair.fg, pair.bg} \subseteq DOMAIN ink
     /\ InGamut(ink[pair.fg]) /\ InGamut(ink[pair.bg])
     /\ Distance(ink[pair.fg], ink[pair.bg]) >= pair.min

\* renderTokensModule: a pair that fails, a token too many or too few, or a
\* colour outside the gamut throws, and so does a manifest without pairs.
Renders(m) ==
  /\ m.paired
  /\ \A th \in DOMAIN m.themes :
       /\ \A pair \in m.contrast : Clears(m, th, pair)
       /\ DOMAIN m.themes[th] = m.tokens
       /\ \A t \in m.tokens : InGamut(m.themes[th][t])

Rendered(m) ==
  [palettes |-> [th \in DOMAIN m.themes |-> [t \in m.tokens |-> Byte(m.themes[th][t])]],
   sections |-> m.sections \cap {"elevation", "sizing"}]

-----------------------------------------------------------------------------
(***************************************************************************)
(* check-styleguide-manifest: the manifest and the module.                 *)
(***************************************************************************)
Schema(m) ==
  /\ m.tokens # {} /\ m.themes # <<>>
  /\ \A th \in DOMAIN m.themes :
       /\ DOMAIN m.themes[th] = m.tokens
       /\ \A t \in DOMAIN m.themes[th] : InGamut(m.themes[th][t])
  /\ "statusSurfaces" \in m.sections => StatusTokens \subseteq m.tokens

Contrast(m) == m.paired => \A th \in DOMAIN m.themes, pair \in m.contrast : Clears(m, th, pair)

\* Wrong: the themes and tokens are compared, their values are not.
WrongRegenClean(m, mod) ==
  /\ DOMAIN mod.palettes = DOMAIN m.themes
  /\ \A th \in DOMAIN m.themes : DOMAIN mod.palettes[th] = m.tokens
\* gen-theme.mjs --check, in a process of its own: a throw counts as drift.
RegenClean(m, mod) == Renders(m) /\ mod = Rendered(m)

-----------------------------------------------------------------------------
(***************************************************************************)
(* check-styleguide-manifest: the walk over the sources.                   *)
(***************************************************************************)
On(m, section) == section \in m.sections
Tsx(f) == f # Seam
Styles(marks) == marks \cap Controls # {}

NoEscapes(m, f, marks) ==
  f \notin m.allow =>
    /\ "raw" \notin marks
    /\ On(m, "motionSeam") => "duration" \notin marks
    /\ On(m, "elevation") => "shadow" \notin marks
    /\ Tsx(f) /\ f \notin Home => "inline" \notin marks

\* The seam ban: no allow list counts here.
Motion(m, f, marks) ==
  On(m, "motionSeam") /\ "animated" \in marks => f \in Home \cup {Seam}

Touchable(m, f, marks) ==
  On(m, "controlPrimitives") /\ f \in Home /\ Styles(marks) =>
    /\ On(m, "base") /\ "pressable" \in marks => f = TouchableBase
    /\ On(m, "sizing") => "minTarget" \in marks

\* A styled control outside the home, and a status without its colour, need an
\* exemption; an exemption needs them.
Forks(m, src)  == {f \in Sources \ Home : On(m, "controlPrimitives") /\ Tsx(f) /\ Styles(src[f])}
Silent(m, src) ==
  {f \in Sources : On(m, "statusSurfaces") /\ Tsx(f) /\ "signal" \in src[f] /\ "status" \notin src[f]}
Exemptions(m, src) ==
  /\ On(m, "controlPrimitives") => m.controlAllow = Forks(m, src)
  /\ On(m, "statusSurfaces") => m.statusAllow = Silent(m, src)

AccentUses(src) == Cardinality({f \in Sources : "accent" \in src[f]})

Walk(m, src) ==
  /\ \A f \in Sources : NoEscapes(m, f, src[f]) /\ Motion(m, f, src[f]) /\ Touchable(m, f, src[f])
  /\ Exemptions(m, src)
  /\ AccentUses(src) <= m.accentBudget

Styleguide(m, mod, src) ==
  Schema(m) /\ Contrast(m) /\ mod # Missing /\ RegenClean(m, mod) /\ Walk(m, src)

-----------------------------------------------------------------------------
(***************************************************************************)
(* A pull request.                                                         *)
(***************************************************************************)
Changed == changes < MaxChanges /\ changes' = changes + 1 /\ review' = "none"

EditTokens ==
  /\ Changed /\ UNCHANGED <<module, source>>
  /\ \/ \E t \in Tokens : manifest' = [manifest EXCEPT !.tokens = Toggled(@, t)]
     \/ \E th \in DOMAIN manifest.themes, t \in Tokens :
          \/ \E ink \in Inks \cup {OutOfGamut} :
               manifest' = [manifest EXCEPT !.themes[th] = With(@, t, ink)]
          \/ manifest' = [manifest EXCEPT !.themes[th] = Less(@, t)]
     \/ \E th \in DOMAIN manifest.themes : manifest' = [manifest EXCEPT !.themes = Less(@, th)]
     \/ \E pair \in Pairs : manifest' = [manifest EXCEPT !.contrast = Toggled(@, pair)]
     \/ manifest' = [manifest EXCEPT !.paired = ~@]

EditScans ==
  /\ Changed /\ UNCHANGED <<module, source>>
  /\ \/ \E s \in Sections :
          /\ s = "controlPrimitives" => ~On(manifest, "base")
          /\ s = "base" => On(manifest, "controlPrimitives")
          /\ manifest' = [manifest EXCEPT !.sections = Toggled(@, s)]
     \/ \E f \in Sources :
          \/ manifest' = [manifest EXCEPT !.allow = Toggled(@, f)]
          \/ manifest' = [manifest EXCEPT !.controlAllow = Toggled(@, f)]
          \/ manifest' = [manifest EXCEPT !.statusAllow = Toggled(@, f)]

EditSource ==
  /\ Changed /\ UNCHANGED <<manifest, module>>
  /\ \E f \in Sources, mark \in Marks : source' = [source EXCEPT ![f] = Toggled(@, mark)]

\* A hand edit of the generated module, or its removal.
EditModule ==
  /\ Changed /\ UNCHANGED <<manifest, source>>
  /\ \/ \E th \in DOMAIN module.palettes :
          \E t \in DOMAIN module.palettes[th], ink \in Inks :
            module' = [module EXCEPT !.palettes[th][t] = Byte(ink)]
     \/ module' = Missing

\* node tools/gen-theme.mjs: it writes all of the module or throws before.
Regenerate ==
  /\ review = "none" /\ Renders(manifest) /\ module # Rendered(manifest)
  /\ module' = Rendered(manifest)
  /\ UNCHANGED <<manifest, source, review, changes>>

Review ==
  /\ review = "none"
  /\ review' = IF Styleguide(manifest, module, source) THEN "green" ELSE "red"
  /\ UNCHANGED <<manifest, module, source, changes>>

\* Any manifest the schema has a place for: the base belongs to the controls.
DesignInit ==
  /\ manifest \in Manifest
  /\ On(manifest, "base") => On(manifest, "controlPrimitives")
  /\ review = "none" /\ changes = 0

DesignNext == EditTokens \/ EditScans \/ EditSource \/ EditModule \/ Regenerate \/ Review

DesignSpec == DesignInit /\ [][DesignNext]_dvars

-----------------------------------------------------------------------------
(***************************************************************************)
(* Properties.                                                             *)
(***************************************************************************)
\* check-styleguide-manifest.mjs:30-34: on a green tree every listed pair is
\* readable as it is painted, in every theme the app can resolve and up to the
\* rounding of the two bytes; a source that paints something else is exempt by
\* name, and a control is styled where controls are or is exempt.  The walk leaves
\* all of src/theme out, what is written by hand there too (:35, :604): of those
\* files nothing is claimed.
PaintIsReadable ==
  review = "green" =>
    /\ \A th \in DOMAIN module.palettes, pair \in manifest.contrast :
         LET paint == module.palettes[th] IN
         /\ {pair.fg, pair.bg} \subseteq DOMAIN paint
         /\ 2 * Distance(paint[pair.fg], paint[pair.bg]) + 1 >= pair.min
    /\ \A f \in Sources : "raw" \in source[f] => f \in manifest.allow
    /\ On(manifest, "base") /\ On(manifest, "sizing") =>
         \A f \in Sources \ {Seam} :
           f \notin manifest.controlAllow =>
             /\ "pressable" \in source[f] => f = TouchableBase
             /\ Styles(source[f]) => f \in Home /\ "minTarget" \in source[f]

=============================================================================
