----------------------------- MODULE Parameters ------------------------------
(* Parameter definitions, iamf/obu/param_definitions, as audio elements and    *)
(* mix presentations hold them, and parameter blocks with their data,          *)
(* iamf/obu/parameter_block.cc and the *_parameter_data.cc beside it.          *)
(*                                                                             *)
(* A definition is [type, base, specific]: base holds the members of           *)
(* ParamDefinition, specific those of the derived class.  The bytes of an      *)
(* ExtendedParamDefinition are all there is of it, and of its base.            *)
EXTENDS ObuHeader, FiniteSets

MixGain == 0
Demixing == 1
ReconGain == 2
Polar == 3
Cart8 == 4
Cart16 == 5
DualPolar == 6
DualCart8 == 7
DualCart16 == 8
IsExtended(d) == "bytes" \in DOMAIN d.specific

BaseFields == << <<"parameter_id", Leb>>, <<"parameter_rate", Leb>>,
                 <<"param_definition_mode", U(1)>>, <<"reserved", U(7)>> >>
DurationFields == << <<"duration", Leb>>, <<"constant_subblock_duration", Leb>> >>
DefaultBase == [parameter_id |-> 0, parameter_rate |-> 0, param_definition_mode |-> 0,
                reserved |-> 0, duration |-> 0, constant_subblock_duration |-> 0,
                num_subblocks |-> 0, subblock_durations |-> <<>>]

Total(s) == LET upTo[k \in 0..Len(s)] == IF k = 0 THEN 0 ELSE upTo[k - 1] + s[k]
            IN upTo[Len(s)]

IncludeSubblockDurationArray(b) ==
    b.param_definition_mode = 0 /\ b.constant_subblock_duration = 0

(* ParamDefinition::Validate, with what demixing and recon gain ask for.       *)
ValidDefinition(type, b) ==
    /\ b.parameter_rate # 0
    /\ b.param_definition_mode = 0 =>
          b.duration # 0 /\ b.constant_subblock_duration <= b.duration
    /\ IncludeSubblockDurationArray(b) =>
          /\ Len(b.subblock_durations) = b.num_subblocks
          /\ \A k \in DOMAIN b.subblock_durations : b.subblock_durations[k] # 0
          /\ Total(b.subblock_durations) = b.duration
    /\ type \in {Demixing, ReconGain} =>
          /\ b.param_definition_mode = 0
          /\ b.duration # 0
          /\ b.constant_subblock_duration = b.duration

WriteBase(w, type, b) ==
    LET id == Put(Require(w, ValidDefinition(type, b)), BaseFields, b)
        durations == IF b.param_definition_mode = 0
                     THEN Put(id, DurationFields, b) ELSE id
    IN IF IncludeSubblockDurationArray(b)
       THEN PutMany(PutOne(durations, Leb, b.num_subblocks), Leb, b.subblock_durations)
       ELSE durations

ReadDurationArray(r) ==
    Then(TakeOne(r, "num_subblocks", Leb), LAMBDA num :
         TakeMany(num, "subblock_durations", num.got.num_subblocks, Leb))

(* What was read is validated only if it has an array of durations.            *)
ReadBase(r, type) ==
    Then(Take([r EXCEPT !.got = DefaultBase], BaseFields), LAMBDA id :
    Then(IF id.got.param_definition_mode = 0 THEN Take(id, DurationFields) ELSE id,
         LAMBDA durations :
         IF IncludeSubblockDurationArray(durations.got)
         THEN Validated(ReadDurationArray(durations), LAMBDA b : ValidDefinition(type, b))
         ELSE durations))
-------------------------------------------------------------------------------
Coordinates(kind, which) == [k \in 1..3 |-> <<which \o <<"x", "y", "z">>[k], kind>>]
Angles(which) == << <<which \o "azimuth", S(9)>>, <<which \o "elevation", S(8)>>,
                    <<which \o "distance", U(7)>> >>
DMixPFields == << <<"dmixp_mode", U(3)>>, <<"reserved", U(5)>> >>

MixGainFields == << <<"default_mix_gain", S(16)>> >>
DemixingFields == DMixPFields \o << <<"default_w", U(4)>>,
                                    <<"reserved_for_future_use", U(4)>> >>
PolarFields == Angles("default_")
Cart8Fields == Coordinates(S(8), "default_")
Cart16Fields == Coordinates(S(16), "default_")
DualPolarFields == Angles("default_first_") \o Angles("default_second_")
DualCart8Fields ==
    Coordinates(S(8), "default_first_") \o Coordinates(S(8), "default_second_")
DualCart16Fields ==
    Coordinates(S(16), "default_first_") \o Coordinates(S(16), "default_second_")

SpecificFields(type) ==
    CASE type = MixGain    -> MixGainFields
      [] type = Demixing   -> DemixingFields
      [] type = ReconGain  -> <<>>
      [] type = Polar      -> PolarFields
      [] type = Cart8      -> Cart8Fields
      [] type = Cart16     -> Cart16Fields
      [] type = DualPolar  -> DualPolarFields
      [] type = DualCart8  -> DualCart8Fields
      [] type = DualCart16 -> DualCart16Fields

(* The reserved modes 3 and 7 are refused.                                     *)
Supported(type, specific) ==
    type = Demixing => specific.dmixp_mode \notin {3, 7}

Clip3(v, min, max) == IF v < min THEN min ELSE IF v > max THEN max ELSE v
IsAzimuth(name) ==
    name \in {"default_azimuth", "default_first_azimuth", "default_second_azimuth"}
IsElevation(name) ==
    name \in {"default_elevation", "default_first_elevation", "default_second_elevation"}
Clipped(specific) ==
    [m \in DOMAIN specific |->
        IF IsAzimuth(m) THEN Clip3(specific[m], -180, 180)
        ELSE IF IsElevation(m) THEN Clip3(specific[m], -90, 90) ELSE specific[m]]

WriteSized(w, bytes) == PutOne(PutOne(w, Leb, Len(bytes)), Bytes(0), bytes)
TakeSized(r, name) ==
    Then(TakeOne(r, "size", Leb), LAMBDA size :
         TakeOne([size EXCEPT !.got = r.got], name, Bytes(size.got.size)))

WriteParamDefinition(w, d) ==
    IF IsExtended(d) THEN WriteSized(w, d.specific.bytes)
    ELSE Require(Put(WriteBase(w, d.type, d.base),
                     SpecificFields(d.type), Clipped(d.specific)),
                 Supported(d.type, d.specific))

ReadParamDefinition(r, type) ==
    Then(TakeStruct(TakeStruct(Store(r, "type", type), "base",
                               LAMBDA x : ReadBase(x, type)),
                    "specific", LAMBDA x : Take(x, SpecificFields(type))),
         LAMBDA all :
         Require(Store(all, "specific", Clipped(all.got.specific)),
                 Supported(type, all.got.specific)))

ReadExtendedParamDefinition(r, type) ==
    TakeStruct(Store(Store(r, "type", type), "base", Empty), "specific",
               LAMBDA x : TakeSized(x, "bytes"))
-------------------------------------------------------------------------------
(* Parameter data, by the type of the definition.                              *)
AnimationFields(animation) ==
    SubSeq(<< <<"start_point_value", S(16)>>, <<"end_point_value", S(16)>>,
              <<"control_point_value", S(16)>>, <<"control_point_relative_time", U(8)>> >>,
           1, CASE animation = 0 -> 1 [] animation = 1 -> 2 [] OTHER -> 4)

ReconGainSize == 12
(* The bit of the flag that announces the gain of channel j.                   *)
Announces(flag, j) == Bit(flag, j - 1) = 1
Announced(flag, upTo) == Cardinality({j \in 1..upTo : Announces(flag, j)})

WriteReconGainElement(w, e) ==
    PutEach(PutOne(w, Leb, e.recon_gain_flag),
            [j \in 1..ReconGainSize |-> j],
            LAMBDA x, j : IF Announces(e.recon_gain_flag, j)
                          THEN PutOne(x, U(8), e.recon_gain[j]) ELSE x)

ReadReconGainElement(r) ==
    Then(TakeOne(r, "recon_gain_flag", Leb), LAMBDA flag :
    Then(TakeMany(flag, "gains", Announced(flag.got.recon_gain_flag, ReconGainSize), U(8)),
         LAMBDA gains :
         Store(Without(gains, {"gains"}), "recon_gain",
               [j \in 1..ReconGainSize |->
                   IF gains.ok /\ Announces(flag.got.recon_gain_flag, j)
                   THEN gains.got.gains[Announced(flag.got.recon_gain_flag, j)] ELSE 0])))

(* A layer without recon gains has no element: std::nullopt, here <<>>.        *)
WriteReconGain(w, flags, elements) ==
    LET upTo[k \in 0..Len(flags)] ==
            IF k = 0 THEN Require(w, Len(elements) = Len(flags))
            ELSE IF flags[k] = 0 THEN upTo[k - 1]
            ELSE LET x == Require(upTo[k - 1], elements[k] # <<>>)
                 IN IF x.ok THEN WriteReconGainElement(x, elements[k][1]) ELSE x
    IN upTo[Len(flags)]

ReadReconGain(r, flags) ==
    LET upTo[k \in 0..Len(flags)] ==
            IF k = 0 THEN [r EXCEPT !.got = <<>>]
            ELSE IF flags[k] = 0 THEN [upTo[k - 1] EXCEPT !.got = Append(@, <<>>)]
            ELSE Then(upTo[k - 1], LAMBDA so :
                 Then(ReadReconGainElement([so EXCEPT !.got = Empty]), LAMBDA one :
                      [one EXCEPT !.got = Append(so.got, <<one.got>>)]))
    IN Store([upTo[Len(flags)] EXCEPT !.got = Empty], "elements", upTo[Len(flags)].got)

(* Data of positions is not implemented.                                       *)
HasData(d) == d.type \in {MixGain, Demixing, ReconGain} \/ IsExtended(d)

WriteParameterData(w, d, data) ==
    CASE ~HasData(d) -> Require(w, FALSE)
      [] d.type = MixGain -> Put(PutOne(w, Leb, data.animation_type),
                                 AnimationFields(data.animation_type), data)
      [] d.type = Demixing -> Require(Put(w, DMixPFields, data),
                                      Supported(Demixing, data))
      [] d.type = ReconGain -> WriteReconGain(w, d.flags, data.elements)
      [] OTHER -> WriteSized(w, data.bytes)

ReadParameterData(r, d) ==
    CASE ~HasData(d) -> Require(r, FALSE)
      [] d.type = MixGain ->
            Then(TakeOne(r, "animation_type", Leb), LAMBDA animation :
                 Take(Require(animation, animation.got.animation_type \in 0..2),
                      AnimationFields(animation.got.animation_type)))
      [] d.type = Demixing ->
            Validated(Take(r, DMixPFields), LAMBDA data : Supported(Demixing, data))
      [] d.type = ReconGain -> ReadReconGain(r, d.flags)
      [] OTHER -> TakeSized(r, "bytes")
-------------------------------------------------------------------------------
(* A parameter block: the members of ParameterBlockObu; d is the definition    *)
(* its parameter_id refers to.                                                 *)
DefaultBlock == [duration |-> 0, constant_subblock_duration |-> 0, num_subblocks |-> 0]

GetDuration(d, b) ==
    IF d.base.param_definition_mode = 1 THEN b.duration ELSE d.base.duration
GetConstantSubblockDuration(d, b) ==
    IF d.base.param_definition_mode = 1 THEN b.constant_subblock_duration
    ELSE d.base.constant_subblock_duration

GetNumSubblocks(d, b) ==
    LET csd == GetConstantSubblockDuration(d, b)
    IN CASE csd # 0 -> (GetDuration(d, b) \div csd)
                       + (IF GetDuration(d, b) % csd # 0 THEN 1 ELSE 0)
         [] csd = 0 /\ d.base.param_definition_mode = 1 -> b.num_subblocks
         [] OTHER -> d.base.num_subblocks

SubblockDurationUncut(d, b, i) == GetConstantSubblockDuration(d, b)
GetSubblockDuration(d, b, i) ==
    LET csd == GetConstantSubblockDuration(d, b)
        n == GetNumSubblocks(d, b)
    IN CASE csd = 0 /\ d.base.param_definition_mode = 1 ->
               b.subblocks[i + 1].subblock_duration[1]
         [] csd = 0 /\ d.base.param_definition_mode = 0 ->
               d.base.subblock_durations[i + 1]
         [] csd # 0 /\ i = n - 1 /\ n * csd > GetDuration(d, b) ->
               GetDuration(d, b) - (n - 1) * csd
         [] OTHER -> csd

(* The subblock GetLinearMixGain interpolates in, or -1.                       *)
TargetSubblock(d, b, time) ==
    LET n == GetNumSubblocks(d, b)
        start[i \in 0..n] ==
            IF i = 0 THEN 0 ELSE start[i - 1] + GetSubblockDuration(d, b, i - 1)
        holding == {i \in 0..(n - 1) : start[i] <= time /\ time < start[i + 1]}
    IN IF holding = {} THEN -1 ELSE CHOOSE i \in holding : \A j \in holding : i <= j

IncludesSubblockDuration(d, b) ==
    d.base.param_definition_mode = 1 /\ b.constant_subblock_duration = 0
SubblocksMatch(d, b) ==
    IncludesSubblockDuration(d, b) =>
        Total([k \in DOMAIN b.subblocks |-> b.subblocks[k].subblock_duration[1]])
        = b.duration

WriteSubblock(w, d, s) ==
    LET duration == IF s.subblock_duration = <<>> THEN w
                    ELSE PutOne(w, Leb, s.subblock_duration[1])
    IN WriteParameterData(duration, d, s.data)

ReadSubblock(r, d, explicit) ==
    TakeStruct(TakeMany(r, "subblock_duration", IF explicit THEN 1 ELSE 0, Leb), "data",
               LAMBDA x : ReadParameterData(x, d))

IdFields == << <<"parameter_id", Leb>> >>
NumSubblocksFields == << <<"num_subblocks", Leb>> >>

(* CreateMode0 and CreateMode1 are what the values to write come from.         *)
WriteParameterBlock(w, d, b) ==
    LET explicit == IF d.base.param_definition_mode = 1 THEN DurationFields ELSE <<>>
        num == IF IncludesSubblockDuration(d, b) THEN NumSubblocksFields ELSE <<>>
    IN Require(PutEach(Put(Require(w, ValidDefinition(d.type, d.base)),
                           IdFields \o explicit \o num, b),
                       b.subblocks, LAMBDA x, s : WriteSubblock(x, d, s)),
               SubblocksMatch(d, b))

PeekParameterId(r) == TakeOne(r, "parameter_id", Leb)

ReadSubblocks(r, d, n) ==
    TakeEach(Require(r, n <= GetDuration(d, r.got)), "subblocks", n,
             LAMBDA x : ReadSubblock(x, d, IncludesSubblockDuration(d, r.got)))

ReadParameterBlock(r, d) ==
    Then(Take([Require(r, ValidDefinition(d.type, d.base)) EXCEPT !.got = DefaultBlock],
              IdFields \o (IF d.base.param_definition_mode = 1 THEN DurationFields
                           ELSE <<>>)), LAMBDA explicit :
    Then(Take(Require(explicit, explicit.got.parameter_id = d.base.parameter_id),
              IF IncludesSubblockDuration(d, explicit.got) THEN NumSubblocksFields
              ELSE <<>>), LAMBDA num :
    Then(ReadSubblocks(num, d, GetNumSubblocks(d, num.got)), LAMBDA subblocks :
         IF subblocks.ok
         THEN Require(subblocks, SubblocksMatch(d, subblocks.got)) ELSE subblocks)))
=============================================================================
