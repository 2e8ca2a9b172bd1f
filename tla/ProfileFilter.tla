---------------------------- MODULE ProfileFilter ---------------------------
(***************************************************************************)
(* Which profiles allow a mix presentation (profile_filter.cc). A profile   *)
(* that does not is removed from those that are asked for; an error of the  *)
(* code is a result without any profile.                                   *)
(*                                                                         *)
(* An element has a kind, what matters of its config, the number of labels  *)
(* of its substreams, and its codec config [id, lpcm, frame, rate]. A mix   *)
(* has sub mixes, a sub mix has elements [id, headphones] and layouts.      *)
(***************************************************************************)
EXTENDS Integers, Sequences, FiniteSets, SequencesExt

Simple == "Simple"
Base == "Base"
BaseEnhanced == "BaseEnhanced"
BaseAdvanced == "BaseAdvanced"
Advanced1 == "Advanced1"
Advanced2 == "Advanced2"

ProfileVersions ==
  {Simple, Base, BaseEnhanced, BaseAdvanced, Advanced1, Advanced2}

(* The profiles of the first versions of the format.                       *)
FirstProfiles == {Simple, Base, BaseEnhanced}

AtMost(n, limit, profiles) == {p \in profiles : n <= limit[p]}

-----------------------------------------------------------------------------
FilterAudioElementType(element, profiles) ==
  CASE element.kind \in {"channels", "ambisonics"} -> profiles
    [] element.kind = "objects" -> profiles \ FirstProfiles
    [] OTHER -> {}

(* The layouts that were added for BaseEnhanced, and those added later.     *)
FilterExpandedLoudspeakerLayout(layout, profiles) ==
  CASE layout = "expanded" -> profiles
    [] layout = "later expanded" -> profiles \ {BaseEnhanced}
    [] OTHER -> {}

(* Only the first layer is looked at.                                      *)
FilterChannelBasedConfig(layout, profiles) ==
  CASE layout = "listed" -> profiles
    [] layout = "reserved" -> {}
    [] OTHER -> FilterExpandedLoudspeakerLayout(layout, profiles \ {Simple, Base})

FilterAmbisonicsConfig(mode, profiles) ==
  IF mode \in {"mono", "projection"} THEN profiles ELSE {}

FilterProfilesForAudioElement(element, profiles) ==
  LET allowed == FilterAudioElementType(element, profiles)
  IN CASE element.kind = "channels" -> FilterChannelBasedConfig(element.config, allowed)
       [] element.kind = "ambisonics" -> FilterAmbisonicsConfig(element.config, allowed)
       [] OTHER -> allowed

-----------------------------------------------------------------------------
(* The elements of a sub mix and of a mix; those of a mix with repetitions. *)
ElementsOf(subMix) == ToSet(subMix.elements)
ElementsOfMix(mix) == UNION {ElementsOf(mix.subMixes[i]) : i \in DOMAIN mix.subMixes}
AllElements(mix) == FlattenSeq([i \in DOMAIN mix.subMixes |-> mix.subMixes[i].elements])

FilterProfileForNumSubmixes(mix, profiles) ==
  CASE Len(mix.subMixes) <= 1 -> profiles
    [] Len(mix.subMixes) = 2 -> profiles \ FirstProfiles
    [] OTHER -> {}

FilterProfileForHeadphonesRenderingMode(mix, profiles) ==
  LET modes == {x.headphones : x \in ElementsOfMix(mix)}
  IN IF "reserved" \in modes THEN {}
     ELSE IF "head locked" \in modes THEN profiles \ FirstProfiles
     ELSE profiles

MaxCodecConfigs == [p \in ProfileVersions |-> IF p \in FirstProfiles THEN 1 ELSE 2]

FilterProfilesForCodecConfigRules(elements, mix, profiles) ==
  LET Configs(xs) == {elements[x.id].codec : x \in xs}
      Ids(xs) == {c.id : c \in Configs(xs)}
      all == ElementsOfMix(mix)
  IN IF /\ \A x \in all : x.id \in DOMAIN elements
        /\ all # {}
        /\ Cardinality(Ids(ElementsOf(mix.subMixes[1]))) <= 1
        /\ Cardinality(Ids(all)) > 1 => \E c \in Configs(all) : c.lpcm
        /\ \A c, d \in Configs(all) : c.frame = d.frame /\ c.rate = d.rate
     THEN AtMost(Cardinality(Ids(all)), MaxCodecConfigs, profiles)
     ELSE {}

(* Every element of the mix is filtered; none adds a profile.              *)
FilterAudioElements(elements, mix, profiles) ==
  {p \in profiles : \A x \in ElementsOfMix(mix) :
     p \in FilterProfilesForAudioElement(elements[x.id], profiles)}

Limit(simple, base, enhanced, advanced, one, two) ==
  [p \in ProfileVersions |->
     CASE p = Simple -> simple [] p = Base -> base [] p = BaseEnhanced -> enhanced
       [] p = BaseAdvanced -> advanced [] p = Advanced1 -> one [] p = Advanced2 -> two]

MaxAudioElements == Limit(1, 2, 28, 18, 18, 28)

MaxChannelsOfSimple == Limit(16, 18, 28, 16, 18, 28)

MaxChannels == Limit(16, 18, 28, 18, 18, 28)

FilterProfilesForNumAudioElements(mix, profiles) ==
  AtMost(Len(AllElements(mix)), MaxAudioElements, profiles)

(* An element is counted as often as it is used.                           *)
NumChannels(elements, uses) ==
  LET upTo[n \in 0..Len(uses)] ==
        IF n = 0 THEN 0 ELSE upTo[n - 1] + elements[uses[n].id].channels
  IN upTo[Len(uses)]

FilterProfilesForNumChannels(elements, mix, profiles) ==
  AtMost(NumChannels(elements, AllElements(mix)), MaxChannels, profiles)

(* One filter after the other; none adds a profile.                        *)
FilterProfilesForMixPresentation(elements, mix, profiles) ==
  LET configs == FilterProfilesForCodecConfigRules(elements, mix,
                   FilterProfileForHeadphonesRenderingMode(mix,
                     FilterProfileForNumSubmixes(mix, profiles)))
  IN IF configs = {} THEN {}
     ELSE FilterProfilesForNumChannels(elements, mix,
            FilterProfilesForNumAudioElements(mix,
              FilterAudioElements(elements, mix, configs)))
=============================================================================
