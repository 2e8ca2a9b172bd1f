------------------------ MODULE AudioElementGenerator ------------------------
(***************************************************************************)
(* From the user's metadata to audio elements with their substreams and    *)
(* parameter definitions (audio_element_generator.cc), and from all of     *)
(* these to the definitions of the parameters by their ids (cli_util.cc).  *)
(*                                                                         *)
(* The metadata of an element is a record: its id and that of its codec    *)
(* config, the type and for a scene the mode, the ids of the substreams,   *)
(* the fields of the config by the type, and the parameters: [type,        *)
(* definition], where the definition is as in Parameters without its type. *)
(* A codec config is [frame, lossless, rate].                              *)
(***************************************************************************)
EXTENDS Reconstruction

Obu == INSTANCE AudioElement

Defines(x, type) == \E i \in DOMAIN x.params : x.params[i].type = type

-----------------------------------------------------------------------------
(* GenerateParameterDefinitions. The types that have no place in an audio   *)
(* element are refused, and those that are deprecated or missing; those    *)
(* that are for demixing have the duration of a frame. What an extension   *)
(* holds is kept as it is.                                                 *)
AcceptsParam(p, codec) ==
  /\ p.type \in {"demixing", "recon_gain", "extension"}
  /\ p.type \in {"demixing", "recon_gain"} => p.definition.duration = codec.frame

AcceptsParams(x, codec) == \A i \in DOMAIN x.params : AcceptsParam(x.params[i], codec)

(* ValidateReconGainDefined: every layer but the first has recon gains       *)
(* exactly when the codec is lossy, and then they are defined.             *)
ReconGainIsDefined(x, codec) ==
  LET required == {i \in DOMAIN x.layers : i > 1 /\ ~codec.lossless}
  IN /\ \A i \in DOMAIN x.layers : x.layers[i].recon <=> i \in required
     /\ Defines(x, "recon_gain") <=> required # {}

(* What AudioElementObu asks of a config on creation.                      *)
ObuLayers(layers) ==
  [i \in DOMAIN layers |->
     [substream_count |-> layers[i].substreams,
      loudspeaker_layout |-> IF layers[i].layout = "Binaural" THEN Obu!LayoutBinaural
                             ELSE IF layers[i].layout \in ExpandedLayouts
                             THEN Obu!LayoutExpanded ELSE 0]]

(* A layout the internal enumerations do not know, the deprecated ones among *)
(* them, is refused.                                                       *)
HasLayouts(layers) ==
  \A i \in DOMAIN layers : layers[i].layout \in Layouts \union ExpandedLayouts

CreatesChannelBased(x, codec) ==
  /\ HasLayouts(x.layers)
  /\ Obu!ValidScalable(ObuLayers(x.layers), Len(x.ids))
  /\ AcceptsParams(x, codec)
  /\ ReconGainIsDefined(x, codec)
  /\ SubstreamLabels(x.ids, x.layers) # <<>>

(* Ambisonics: as many elements as announced, then what the OBU asks for.    *)
CreatesAmbisonicsMono(x, codec) ==
  /\ Len(x.mapping) = x.outputs
  /\ Obu!ValidMono([output_channel_count |-> x.outputs, substream_count |-> x.substreams,
                    channel_mapping |-> x.mapping], Len(x.ids))
  /\ AcceptsParams(x, codec)
  /\ \A n \in DOMAIN x.mapping : x.mapping[n] # Inactive => HasLabel(n - 1)

CreatesAmbisonicsProjection(x, codec) ==
  LET config == [output_channel_count |-> x.outputs, substream_count |-> x.substreams,
                 coupled_substream_count |-> x.coupled, demixing_matrix |-> x.matrix]
  IN /\ Len(x.matrix) = Obu!NumDemixingMatrixElements(config)
     /\ Obu!ValidProjection(config, Len(x.ids))
     /\ AcceptsParams(x, codec)
     /\ AmbisonicsProjectionLabels(x.ids, x.coupled) # <<>>

(* Objects: one substream with a channel for each. The parameters are not   *)
(* looked at.                                                              *)
CreatesObjects(x) == x.objects \in {1, 2} /\ Len(x.ids) = 1

Creates(x, codec) ==
  CASE x.type = "channels" -> CreatesChannelBased(x, codec)
    [] x.type = "scene" /\ x.mode = "mono" -> CreatesAmbisonicsMono(x, codec)
    [] x.type = "scene" /\ x.mode = "projection" -> CreatesAmbisonicsProjection(x, codec)
    [] x.type = "objects" -> CreatesObjects(x)
    [] OTHER -> FALSE

(* The parameters the element has in the end.                              *)
Params(x) == IF x.type = "objects" THEN <<>> ELSE x.params

(* AudioElementGenerator::Generate.                                        *)
Generates(metadata, codecs) ==
  /\ IsInjective([i \in DOMAIN metadata |-> metadata[i].id])
  /\ \A i \in DOMAIN metadata :
       /\ metadata[i].codec \in DOMAIN codecs
       /\ Creates(metadata[i], codecs[metadata[i].codec])

-----------------------------------------------------------------------------
(* CollectAndValidateParamDefinitions. A definition of recon gains is that  *)
(* of one element, and knows the layers it has (FillReconGainAuxiliaryData); *)
(* extensions are left out.                                                *)
ReconGainDefinition(x, p) ==
  [type |-> Obu!ReconGain, base |-> p.definition, element |-> x.id,
   layers |-> [i \in DOMAIN x.layers |->
                 [recon |-> x.layers[i].recon,
                  channels |-> LoudspeakerLayoutToChannels(x.layers[i].layout)]]]

DemixingDefinition(p) == [type |-> Obu!Demixing, base |-> p.definition]

DefinitionsOf(x) ==
  {DemixingDefinition(Params(x)[i]) :
     i \in {j \in DOMAIN Params(x) : Params(x)[j].type = "demixing"}}
  \union
  {ReconGainDefinition(x, Params(x)[i]) :
     i \in {j \in DOMAIN Params(x) : Params(x)[j].type = "recon_gain"}}

ParameterId(d) == d.base.parameter_id

(* Those of the elements and those of the mix presentations, mixGains.      *)
AllDefinitions(metadata, mixGains) ==
  UNION {DefinitionsOf(metadata[i]) : i \in DOMAIN metadata} \union mixGains

(* Recon gains need layers, and a parameter is defined in one way only.     *)
Collects(metadata, mixGains) ==
  /\ \A i \in DOMAIN metadata : metadata[i].type # "channels" =>
       \A d \in DefinitionsOf(metadata[i]) : d.type # Obu!ReconGain
  /\ \A d, e \in AllDefinitions(metadata, mixGains) :
       ParameterId(d) = ParameterId(e) => d = e

Definitions(metadata, mixGains) ==
  LET all == AllDefinitions(metadata, mixGains)
  IN [id \in {ParameterId(d) : d \in all} |-> CHOOSE d \in all : ParameterId(d) = id]

(* GlobalTimingModule::Create: a clock for every substream and parameter.   *)
HasClocks(metadata, codecs, definitions) ==
  /\ \A i \in DOMAIN metadata : codecs[metadata[i].codec].rate # 0
  /\ IsInjective(FlattenSeq([i \in DOMAIN metadata |-> metadata[i].ids]))
  /\ \A id \in DOMAIN definitions : definitions[id].base.parameter_rate # 0

(* ParametersManager::Create: one of each kind in an element.               *)
CanBeManaged(x) ==
  \A type \in {"demixing", "recon_gain"} :
    Cardinality({i \in DOMAIN Params(x) : Params(x)[i].type = type}) <= 1

(* The descriptors are written: every definition is validated.              *)
CanBeWritten(d) == Obu!ValidDefinition(d.type, d.base)
=============================================================================
