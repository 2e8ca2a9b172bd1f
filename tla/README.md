# A verification development of iamf-tools

TLA+ modules, TLC configurations and TLAPS proofs about iamf-tools: the encoder
with its frame generator, parameter blocks and sequencers; the decoder with its
bit buffer, descriptors, temporal units and API; and what both share, the syntax
of the OBUs, demixing and rendering. Paths below are relative to `src/iamf`.

1. [The system](#1-the-system)
2. [The modules](#2-the-modules)
3. [The runs](#3-the-runs)
4. [The proofs](#4-the-proofs)
5. [What the work showed](#5-what-the-work-showed)
6. [What is not modelled](#6-what-is-not-modelled)
7. [The plan](#7-the-plan)

## 1. The system

iamf-tools encodes and decodes Immersive Audio Model and Formats streams. An IA
Sequence is a block of descriptor OBUs (codec configs, audio elements, mix
presentations) followed by temporal units: for every frame of time, the
parameter blocks and one audio frame per substream.

    encoder:  user metadata -> descriptors, parameter definitions
              samples -> DemixingModule (down) -> AudioFrameGenerator
              metadata -> partitioner -> ParameterBlockGenerator
              both -> IamfEncoder -> RenderingMixPresentationFinalizer (loudness)
                                  -> several ObuSequencers (file, streaming)
    decoder:  bytes -> StreamBasedReadBitBuffer -> DescriptorObuParser, selection
              of a mix -> ObuProcessor (with GlobalTimingModule)
              -> DemixingModule (up) -> renderer -> IamfDecoder -> caller

Except for the codecs' callbacks and the two threads around
`AudioFrameGenerator`, everything is synchronous: components call each other
and report errors through `absl::Status`. The difficulty is in sequences of
calls, in early returns half way through a call, in positions and times that
are kept in several places, in data that arrives in arbitrary pieces, and in
tables of channels that several files keep and that must fit each other.

| Component | State | Operations | What is hard | What makes it correct |
|---|---|---|---|---|
| OBU sequencers (`cli/obu_sequencer_base`, `_iamf`, `_streaming_iamf`) | `state_`, the cached descriptors and their statistics, first timestamp, delayed units; file or buffers of the derived class | push descriptors, push unit, update and close, close, abort | a dozen early returns that must undo what was written; delaying the descriptors until a sample survives trimming; calls in any order | what is accepted is written once, in order, behind its descriptors; the end is complete or nothing |
| Read bit buffer (`common/read_bit_buffer`) | window, its size and offset; source and the offset loaded up to; position validity | read, seek, tell, ignore, push, flush | four offsets that move together; refill in the middle of a read; running out of data | a read returns the bits behind the position; a position survives pushes and flushes |
| Write bit buffer, LEB128 (`common/write_bit_buffer`, `leb_generator`) | the bits written | typed writes | ranges, configured sizes | what is written is read back |
| OBU syntax (`obu/`) | none | write, validate, read of every OBU | optional fields, sizes within sizes, extensions | reading inverts writing; ends agree; what was read can be written |
| OBU processor (`cli/obu_processor`) | current and next temporal unit, delimiter seen | `ProcessTemporalUnit`, rendering | units have no mark of their end; three overlapping end conditions; data ends anywhere | units are cut where the encoder ended them; nothing lost or of mixed times |
| Global timing module (`cli/global_timing_module`) | next timestamp per substream and per parameter | next times of a frame, of a block | clocks that count, and drift when one OBU is missing | times of a substream are contiguous; a block precedes its frames |
| Descriptor parsing, selection (`cli/descriptor_obu_parser`, `profile_filter`, `obu_processor_utils`) | none between calls; rewinds the buffer | parse, filter, select | incomplete descriptors, duplicates, bypassed OBUs; three wishes that compete | a repeated parse gives the same; nothing refers to what is missing; the wish that counts is granted |
| Decoder API (`api/decoder/iamf_decoder`) | status, rendered spans, read buffer, processor | decode, get, signal end, reset | three calls that each decode ahead into one buffer; rendering that fails; end of stream | no unit is lost, repeated or overwritten; everything comes out after the end |
| Encoder (`cli/iamf_encoder`) | sequencers, finalize flags, waiting parameter blocks and arbitrary OBUs, frame generator, finalizer | encode, output unit, finalize | partial failure across sequencers; blocks wait for frames that are late | all sequencers hold the same sequence; final means complete |
| Audio frame generator (`proto_to_obu/audio_frame_generator`) | three states behind a mutex, one encoder per substream, trimming state | add, output (another thread), finalize | two threads, locks taken per step | frames are output aligned, none lost, and the generator ends |
| Substream frames (`cli/substream_frames`) | list of frames, iterators per channel | push, fill, pop | recycled frames under live iterators | samples leave in the order they came |
| Codecs (`cli/codec`) | queue of finished frames; external handles | encode, finalize, pop | a frame held back, a delay | frames come out in order, once |
| Temporal unit view (`cli/temporal_unit_view`) | none; validates and derives statistics | create | 32-bit sum of trims | statistics agree between frames |
| Parameter block generator, partitioner (`cli/parameter_block_*`) | metadata by type, a clock per parameter | partition, add metadata, generate | cutting curves and subblocks; refused blocks and retries | a gain is output when and as it was specified |
| Recon gain (`cli/recon_gain_generator`) | none | compute | tables of what is demixed, in three files | a gain reaches the channel it was computed for |
| Parameters manager (`cli/parameters_manager`) | last block and index of w per parameter | add, get, update | blocks early, missing or shared | a frame has the parameters its blocks say |
| Encoder main program (`cli/encoder_main_lib`) | slots of the unit's data | one loop | slots that are reused | every unit gets its own data |
| Generators of descriptors (`proto_conversion/proto_to_obu`) | none | generate | definitions shared between elements | what is created is consistent |
| Demixing (`cli/demixing_module`, `obu_with_data_generator`) | demixers per element | down-mix, demix | an order that depends on the layers | demixing recreates what was mixed away |
| Renderers (`cli/renderer`) | frame parameters, rendered samples | render, flush | counts of channels; twenty matrices | every channel is heard, on its side |
| Mix presentation finalizer, loudness (`cli/rendering_mix_presentation_finalizer`) | `state_`, per layout a renderer, calculator, processor | push unit, finalize, get | a call that fails between two layouts | the loudness is of what was heard |
| Wav, ADM, sample and numeric utilities | files, samples | convert | | unit tests |

The hazards this creates are listed, each at its line, in `PROJECT.json`
together with the properties that address them, or the reason why none does.

## 2. The modules

| Module | Models | Lines |
|---|---|---|
| `IaSequenceOutput` | abstract: what a sequencer promises (class comment of `obu_sequencer_base.h`) | 69 |
| `ObuSequencer` | the base class and its derived classes | 311 |
| `ObuSequencer_proofs` | theorems about it | 895 |
| `IamfEncoder` | the encoder with all its sequencers | 394 |
| `IamfEncoder_proofs` | theorems about it: the sequencers agree, and its output is complete | 3311 |
| `AudioFrameGenerator` | the encoder's frame generator and its two threads | 424 |
| `AudioFrameGenerator_proofs` | theorems about it | 6860 |
| `ParameterBlockGenerator` | the parameter blocks from the metadata to the units | 439 |
| `ParameterBlocks` | its functions: partitioner, checks, recon gains | 271 |
| `AudioElementGenerator` | its functions: audio elements and parameter definitions | 143 |
| `ReadBitBuffer` | the three read buffers | 318 |
| `ReadBitBuffer_proofs` | theorems about it | 1177 |
| `ObuProcessor` | `ProcessTemporalUnit` with the timing module | 346 |
| `ObuProcessor_proofs` | theorems about it | 2864 |
| `IamfDecoder` | the decoder API; extends `ObuProcessor` | 322 |
| `IamfDecoder_proofs` | theorems about it; extends `ObuProcessor_proofs` too | 1245 |
| `Descriptors` | parsing, checks and selection of a mix | 399 |
| `Descriptors_proofs` | theorems about it | 2322 |
| `ProfileFilter` | its functions: the profiles | 123 |
| `Demixing` | down-mixing, demixing and the parameters manager | 286 |
| `Reconstruction` | its functions: layers, substreams, mixers | 358 |
| `MixPresentationFinalizer` | rendering and measuring all layouts | 421 |
| `Rendering`, `PrecomputedGains`, `ChannelLabel` | its functions: renderers, matrices, labels | 543 |
| `ObuSyntax` | an OBU on its way through a stream | 272 |
| `BitStream`, `ObuHeader`, `Parameters`, `CodecConfig`, `AudioElement`, `MixPresentation` | its functions: the fields of every OBU | 1283 |
| `DataInduction` | lemmas for the proofs: induction and recursion over numbers, sequences | 471 |
| `MC*` | small instances for TLC | |

A module that holds variants of a definition with a fault in them (named after
what they get wrong, placed just in front of the definition they vary) uses
them nowhere: they record which mistake each property would notice.

`IamfDecoder` extends `ObuProcessor`; `MixPresentationFinalizer`, `Demixing` and
`AudioElementGenerator` share `Reconstruction`, so that what the encoder layers,
the demixer and the renderers see is one definition; `ParameterBlocks` extends
`AudioElementGenerator` and takes the fields of a definition from `AudioElement`.
`IamfEncoder` uses sequencers only as `IaSequenceOutput` describes them, which
`ObuSequencer_proofs` proves of the file sequencers.

### ObuSequencer

One instance is one sequencer; `kind` says which derived class it is. `"File"`
and `"Streaming"` are the two under `src/`; `"Delaying"` stands for a derived
class that asks for `delay_descriptors_until_first_untrimmed_sample`, which the
base class implements and only test classes under `src/` use. Variables
correspond to members (`state_`, `descriptor_statistics_`,
`delayed_temporal_units_`), and `header`, `body`, `pts`, `output` to what the
derived class has written. A list of descriptors is a record with an identity,
its size and the statistics that may not change; a unit is a record with its
timing and whether it can be written (its samples, OBUs and the bit-level
serialisation are left out). Each public method is one action. Its early
returns are disjuncts; those that leave through `AbortOnDestruct` are
`FailedCall`. A write that fails is a choice the environment may take for the
kinds in `Faulty` (the streaming class only appends to vectors and cannot
fail). `HandleInitialTemporalUnits` and the virtual methods are operators of
the actions that call them.

`closing`, `promised` and `accepted` are history variables: what callers were
told. `Retries` says whether a caller goes on after `Close` failed; the class
comment shows one that does not.

`IaSequenceOutput` is the abstract specification; `ObuSequencer` implements it
for file sequencers under the mapping `Phase` (`state_` and `closing`).

### ReadBitBuffer

`source`, `sourceSize` and `window` (bytes, size, offset, source offset) are
the members of the class; `flushed` counts what was dropped so that byte k can
be recognised. Byte k of everything ever pushed is the number k and bit j of it
8k + j, so that `output`, what a read gathered, tells missing, repeated and
wrong bits apart. A read is several steps: `ReadBegin` (checks, alignment),
`ReadBytes` (one iteration of the loop), `ReadFinish` (the partial last byte).
`told` is a history variable with the last position `Tell` returned. The
uninitialised `is_position_valid_` is either value initially. `Flush` is
assumed to drop no more than was read, or more than there is, as
`IamfDecoder` uses it.

### ObuProcessor

The stream is a sequence of OBUs; `received` says how many have arrived
completely, `position` how many were read (an incomplete OBU cannot be read,
the code rewinds to its header). One step handles one OBU, with one action per
OBU type; `Collect` is the end of an iteration of `ProcessTemporalUnit`, which
outputs a unit, returns without one or goes on. `frameClock` and `blockClock`
are the timing module. A *regular* stream is one an encoder writes, given with
the positions at which the encoder ended its units; the others are arbitrary.
`IsRegular` says what that is. A unit is at most one delimiter, then its parameter
blocks, then its frames, of which there is one of every substream at least
(`UnitInOrder`, after `WriteTemporalUnit` of the sequencer); everything in it begins
when the unit does, which is where the last frame of that substream, or the last
block of that parameter, ended (`UnitInTime`, after `TemporalUnitView::Create`);
and descriptors between units are redundant copies. It is an assumption on the
constant `Streams`, which TLC evaluates for the streams of the instances and from
which the proofs start.
The specification includes a user of the class that pushes what it likes and
announces the end of the sequence only at an end.

### IamfDecoder

Extends `ObuProcessor` by the API. A call that decodes sets `call.done` to
FALSE and remembers the position (`began`); steps of `ObuProcessor` follow
(`Process`), then `Render`, `NotYet` or `Fail`, which end the call. `rendered`
is the unit whose spans the decoder holds and `samples` the unit whose samples
are in the memory they point to: the two differ if something was rendered over
a unit that waits. `delivered` is what callers received. Rendering fails
nondeterministically (`MaxFaults`), or because no frame of the unit belongs to
the selected mix. `flushed` counts OBUs where the code counts bits; the bits
are `ReadBitBuffer`'s concern.

### AudioFrameGenerator

Every method holds the mutex throughout, so each is one action; the threads
interleave between them. The first thread is a caller of `AddSamples` and
`Finalize`, the second a loop that asks `GeneratingFrames` and then calls
`OutputFrames`; `consumer` says where it is, and the mutex is free in between.
`state` is `state_`, and the fields of `gen` are the other members: `labeled` is
`id_to_labeled_samples_`, `data` and `encoder` the maps of `SubstreamData` and
encoders (partial functions, because entries are erased), `trimming` the user's
trimming that is left, `clock` the timing module's frame clocks.

Sample k of a channel is the number k and padding is 0, so that `ObuSamples`,
all that a substream output or still holds, tells lost, repeated, reordered and
padded samples apart. A codec is its delay and its latency: FLAC holds a frame
until it gets the next one, the others write at once. The loop of
`MaybeEncodeFramesForAudioElement` runs twice at most and is unrolled. The
channels of an element are passed in lock step, those of different elements in
any order, and only the last call may pass less than a frame. The last
`OutputFrames` calls visit the elements in any order, as a hash map may. An
error is final (`gen.ok`): the callers give up. `setup` is what is encoded, fixed
at the start; `output` and `leftover` are history.

### IamfEncoder

`enc` has the members of the class and what matters of the objects it owns;
`seqs` its sequencers, each with a phase of `IaSequenceOutput`, its descriptors
and its units. `Create`, `Encode`, `FinalizeEncode` and `OutputTemporalUnit` are
the calls; one is one action, whatever it does, since nothing else runs. The
functions they consist of are operators on a record `w` of all that a call may
change, with the error in `w.failed`: an early return leaves what was done
before it, as in the code. A loop over the sequencers is bounded by the first
that is not ready, or whose write fails (`UpTo`, `Failing`). The frame generator
is two counters, of the frames encoded and output, with a latency and a padding
of any number of frames (the run has up to two: AAC-LC delays 2048 samples, two
frames of 1024, which are flushed one per call); the blocks and the arbitrary
OBUs are their times. `AddSamples` is part of `OutputTemporalUnit`, as in the
code, where `Encode` only keeps the samples. `given`, `made`, `failed`, `faults`
and `odd` are history.

### ParameterBlockGenerator

From the metadata of a whole sequence to the blocks of every unit: `Create`
(partition, elements, definitions, clocks), `Encode` (what the main program, or
another caller, hands over), and `OutputTemporalUnit`, whose outcomes are the
actions `RefuseDemixing`, `RefuseMixGain`, `WaitForFrames` and `OutputBlocks`. `typed`
is `typed_proto_metadata_`, `temp` the blocks that wait in the encoder, `clock` the
timing module. Gains are whole numbers in Q7.8, curves are compared as a whole,
since the partitioner does not divide them; a recon gain is computed from a level
before and after the codec. The properties say by themselves, from the
metadata alone, what is consistent and what must come out (`Consistent`,
`Specified`).

### Descriptors

The descriptors are a sequence of OBUs, each a record of what other descriptors
refer to. An OBU arrives in two parts, its header and the rest, since the parser
peeks at the type of an OBU that is not complete. `kept` is what the parser
keeps, by place in the buffer; `dangling` are the elements whose codec config
may have been moved. Reading an OBU of each type is an action; `Insufficient` is
the rewind; `RefuseHeader` a header that cannot be read or is not valid, which
unlike the payload of an OBU is not bypassed; `Initialize` the checks of the
processor, of its timing module and of its parameters manager (`Consistent`);
`Select` the choice of a mix, sub mix and layout; `ResetWithNewMix` reads the
stored descriptors again. The filters of the profiles are `ProfileFilter`, which
follows the order of the checks. `WellFormed` is what the readers of an OBU
guarantee: a sub mix has elements, but not necessarily a layout; when the first
sub mix of the mix that is chosen has none, there is nothing to render to and
the processor is not created.

### Demixing

A sample is a member of a field of prime order and a channel of a frame a sample
that tells it apart from any other, so that mixers are linear maps that can be
undone exactly, and a channel that was not demixed with its own factors differs.
`Mix` and `Decode` handle one element of one unit: the labels of the substreams by
the layers, the mixers in the order of the code, the parameters of the frame from
the manager, and the gains of the layers. `NextUnit` and `NextDecodedUnit` move all
elements on, `TellBlocks` is `AddDemixingParameterBlock` for all the blocks of a unit.

### MixPresentationFinalizer

`metadata` maps the position of a layout to what the class keeps for it: whether
it can be rendered, what was rendered last, what its calculator and its
processor were given. A rendered block is, for every output channel, the
set of the input channels heard on it, with the time and the gains applied.
`PushTemporalUnit` may fail at every layout that the scenario lets fail, before or
behind its measurement. `Rendering` chooses the renderer and puts its matrix
(`PrecomputedGains`, all of them as sets of loudspeakers), the order of the labels
and the projection together.

### ObuSyntax

Reading and writing follow lists of fields, `<<name, kind>>`, as the code follows
the specification of the format; where a field depends on one before, the list is
made in parts. `Write` is `ValidateAndWriteObu` with any configured size of leb128,
`Flip` and `Cut` are the stream, `Read` is the reader that the type in the header
selects, which has another OBU behind, and `Rewrite` writes what was read. Numbers
of 32 bits are their bits, since TLC's integers are narrower.

## 3. The runs

Every run is `tlc -config <cfg> <module>`, all are named like their `.cfg`, and
each takes less than half a minute. Deadlock is checked for the sequencer and the
read buffer, whose methods may be called for ever. It is not for the others,
which stop: a stream or a scenario ends, or a call failed and the caller gives
up. `Rendering` ends in a step of its own (`Done`), so that it is checked there.

| Run | States | What it shows |
|---|---|---|
| `ObuSequencer` | 877 | accepted units are written or held back in order (`NothingLost`); a file ends complete (`FileCompleteWhenClosed`) or empty (`NothingLeftBehind`); units follow descriptors; the signalled timestamp is that of the first sample left (`SignalledTimestamp`); closing is final; a file sequencer implements `IaSequenceOutput` (`ImplementsOutput`) |
| `ReadBitBuffer` | 106664 | window, source and position stay coherent (`Coherent`); a read is exact, or loses the bits of a last byte that is the first one behind the window (section 5) and nothing else, and a failed read can be repeated (`ReadExactUnlessSplit`); `Seek` returns to what `Tell` told, whatever was pushed and flushed since |
| `ObuProcessor` | 109614 | whatever the stream: no frame is lost (`NothingLost`), a unit is of one time, contiguous with the one before, with its blocks in front (`TimesAgree`); for regular streams the units are the encoder's (`UnitsAsEncoded`) and all come out (`EverythingIsOutput`) |
| `IamfDecoder` | 56896 | samples that wait are not rendered over and their bytes are flushed once (`WaitingIsIntact`); no unit is lost while nothing fails, and none is delivered twice or late whatever fails (`UnitsInOrder`); everything received is delivered after the end (`DrainedIsComplete`, and `Drains` as liveness) |
| `AudioFrameGenerator` | 58653 | however the threads interleave: what was added is output once and in order (`NothingLost`), in units that hold every substream at one time, with codecs of different delay aligned (`TemporalUnits`); what is played at the end is what the user did not trim, and calls fail only because of the end trim (`TrimsAsAsked`); the consumer's loop ends (`Ends`) |
| `IamfEncoder` | 40640 | whichever write fails, the sequencers agree (`SequencersAgree`), and the encoder says that it is final only when all are complete (`FinalizedIsComplete`); every frame is output once with its block, every arbitrary OBU once (`OutputIsComplete`); the loop of the interface ends (`Ends`) |
| `ObuSyntax` | 19291 | what is written is read, member by member (`RoundTrip`); who skips an OBU and who reads it agree on its end, also when a bit of it is wrong, and an OBU cut short is refused (`EndsAgree`); what was read is written and read as the same, and refused only in the cases named (`RewritingAgrees`); subblocks add up to their block (`SubblocksCoverBlock`) |
| `Descriptors` | 157053 | however the bytes arrive, the same is kept (`SameInPieces`); nothing that is kept refers to what is missing (`NothingDangling`); the mix that is rendered is the one asked for, if a profile allows it (`SelectionHonoursRequest`); a profile allows what those it extends allow (`ProfilesNest`) |
| `Demixing` | 9642 | what no substream carries is demixed exactly, by encoder and decoder (`RestoresOriginal`); each frame has the parameters that its blocks say (`ParametersFollowBlocks`) |
| `Rendering` | 12529 | every channel is heard on some loudspeaker, not on the other side (`EveryChannelIsHeard`); the layouts of all mixes get the same units, and the loudness is of what was heard (`HeardIsMeasured`) |
| `ParameterBlockGenerator` | 2277 | a gain is output at every tick as it was specified, however it was cut, and what is consistent is never refused (`EncodedAsSpecified`); recon gains are those of the channels that are demixed (`ReconGainsReachTheirChannels`) |
| `DemixingDefaults` | violation | `DecodedIsOriginal`, see 5 |

**Bounds.** *Sequencer*: three accepted units out of four kinds (fully trimmed,
half trimmed, untrimmed, not serialisable), which is two delayed units and the
one that flushes them, or a first untrimmed unit and two behind it; five
descriptor lists, one for each way an update can be accepted or refused. *Read
buffer*: a window of two bytes on a source of three, so that the window is
refilled in the middle of reads, at the end of the source and partially; four
bytes pushed in all, so that the source is full, flushed and filled again; reads
of 0, 3, 8, 12 and 16 bits, which are inside a byte, across an edge, whole bytes
and both. *Processor*: three regular units (one current, one next, one behind)
with and without delimiters, with and without blocks, frames in either order and
useless OBUs between them, in pieces of any size; and every sequence of three
OBUs out of four kinds followed by two out of five more: enough for a substream
to be ahead by more than a frame, for two delimiters in a row and for a block in
the middle of a unit. *Decoder*: three units, of which one waits, one is being
assembled and one is behind them; the first may be completely trimmed; one
rendering fault, one reset, and buffers that are too small. *Frame generator*:
frames of two samples (the least that can be partial), a stereo element of two
substreams and an element of one, so that channels of an element wait for each
other and elements run apart; nine pairs of codecs, among them equal and
different delays below, equal to and above a frame, and FLAC beside codecs that
do not hold frames; start trims that are zero, inside a frame and declared to
include the delay; end trims of zero to a frame, with and without padding; up to
three calls per channel, with short last ones and ones of more than a frame.
*Encoder*: two files and the streaming sequencer, so that there is one before
and one behind the one that fails; three frames; one failing write anywhere; a
codec that holds a frame back, one that adds up to two, or both; arbitrary OBUs
in the first frame, in another and behind all, alone and together. *Syntax*: an
OBU of every type with each of its options at least once; leb128 of the least
size, of one, of two and of eight bytes; any one bit flipped, or the stream cut
anywhere. *Descriptors*: up to two OBUs of thirteen kinds (copies, duplicates,
OBUs of unknown types, ones that contradict, two whose header is refused)
anywhere in a sequence; 81 pairs of mixes with 18 requests, and one reset with
another. *Demixing*: every way to layer the ten plain layouts (up to four
layers), the expanded layouts and ambisonics; two elements with a parameter
each, in common or none, three frames with every pattern of blocks; fourteen
frames for w to reach its limit and turn. *Rendering*: every layout, several
layers and ambisonics up to the fourth order to every playback layout and one
that is reserved; two mixes, three layouts and three units with calls that fail
at one or two of them. *Parameter blocks*: frames of four ticks, so that a cut
can be at, before and behind the middle; two units, three for gaps; two retries;
every way to layer up to four layouts.

**Fairness.** The sequencer, the read buffer, and the modules from `ObuSyntax`
down have no liveness: nothing makes a caller call. A call on the processor or
decoder runs to its end: weak fairness of its steps, since the code is a loop
without waiting. The liveness properties are about a caller that goes on:
`ObuProcessor` has strong fairness of receiving and of asking at the end (an ask
is enabled only between calls, so weak fairness would not do), and `IamfDecoder`
of getting a unit that is available. Both are the loop in the class comment of
`IamfDecoderInterface`. Nothing is assumed about how fast data arrives, nor, in
`IamfDecoder`, that the caller ever signals the end: `Drains` is a leads-to from
that moment. `AudioFrameGenerator` has weak fairness of the next call of each
thread, which the loops in its class comment make: a thread that is not done
calls again, and the mutex is held for one call only. It is stated on the parts
of the actions that move the threads (`PassChunk`, `Finalize`,
`AskGeneratingFrames`, `CallOutputFrames`), each of which is a step of the thread
whenever it is enabled. `IamfEncoder` has weak fairness of the calls of the loop
in the comment of `IamfEncoderInterface`: `Encode` at least once with samples,
`FinalizeEncode`, and `OutputTemporalUnit` again and again, whatever they return.
Since a call that fails may leave the encoder as it was, `odd` makes it a step.

## 4. The proofs

### One sequencer

`ObuSequencer_proofs` proves, for every set of descriptors and units, every
number of units and every pattern of failing writes:

| Theorem | Statement |
|---|---|
| `TypeCorrect` | `Spec => []TypeOK` |
| `NothingIsLeftBehind` | `Spec => []NothingLeftBehind` |
| `UnitsAlwaysFollowDescriptors` | `Spec => []UnitsFollowDescriptors` |
| `FileIsComplete` | `Spec => []FileCompleteWhenClosed` |
| `NothingIsLost` | `Spec => []NothingLost` |
| `ClosingIsFinal` | `Spec => ClosedIsFinal` |
| `TimestampIsSignalled` | `Spec => []SignalledTimestamp` |
| `FileImplementsOutput` | `Spec => ImplementsOutput` |

All but `TypeCorrect` assume `~Retries`, that is, a caller that stops after
`Close` returned an error; without it they are false (section 5). They also
rest on the named assumptions of `ObuSequencer` on its constants.

None of the properties is inductive: `FileCompleteWhenClosed`, for instance, says
nothing of the open states from which a close starts. The inductive invariant
`IInv` adds what each value of `state_` means: nothing is there when
`Initialized`; everything is held back and the descriptors are cached when
`DescriptorsPushed` (which only a delaying sequencer is ever in);
`SerializedPushed` has the cached descriptors and every accepted unit in the
output, and no delayed unit; and a successful close was final. One lemma per
public method shows that it is kept, over lemmas about what abort, close and push
do to the output. `TimestampIsSignalled` adds `TimestampInv`: no timestamp is set
before descriptors are in the output, and until then every accepted unit was
trimmed completely, so that the first unit that is not sets it. The refinement
proof maps each method to the step of `IaSequenceOutput` it implements: `Start`,
`Accept`, `Complete`, `Discard` or a stutter.

### Several sequencers behind an encoder

`IamfEncoder_proofs` proves, for any number of sequencers, frames and failing
writes, and any set of setups that satisfies `SetupsAssumption` (any number of
frames of latency and of padding):

| Theorem | Statement |
|---|---|
| `SurvivorsAgree` | `Spec => []SequencersAgree` |
| `FinalizedMeansComplete` | `Spec => []FinalizedIsComplete` |

`SequencersAgree` compares sequencers with each other. That is not inductive: a
push changes one after the other and stops at the first that fails. `Agree`
compares all of them with the units that were made: the units of every sequencer
are the first ones of these; one that survives never has more than one that
survives before it; it has all of them if all before it survive; and one that is
complete has all of them and the final descriptors. Even that is not enough, for
a push behind a close would break it: the invariant `IInv` also says that a
sequencer is complete only when the encoder generates nothing more, which in turn
needs that a generator without encoders is drained (`IsEnc`).

`Push` and `Close` are maps over the sequencers, bounded by the first failure;
`PushAgrees` and `CloseAgrees` show that they keep `Agree`, over `UpToFacts` and
`FirstFailureEnds`, which say what such a bounded loop does. The functions an
encoder call is made of get one lemma each (`...Advances` while no sequencer is
touched, `...Sound` otherwise), and the public calls one each (`...Keeps`).

### The output of the encoder

`IamfEncoder_proofs` also proves `OutputAlwaysComplete`
(`Spec => []OutputIsComplete`) from the same assumptions: every frame that was
given is output, once, in order and with its parameter block; every arbitrary OBU
is output once; and nothing fails but for a reason outside of the encoder.

Its inductive invariant `OutputInv` is `IInv` with `Whole`, which has a part for
each thing that is under way in the encoder:

* `FramesAccounted`: the frames that were given, and the padding of the setup,
  are encoded, cached or still to come, and only a generator that was told of
  the end flushes;
* `BlocksFollow`: the blocks that wait are consecutive, from the first frame that
  was not output to the last that was encoded, or to the one behind it, and the
  manager expects the block of the frame that is encoded next;
* `FinalizedLast`: the loudness is finalized when nothing more is generated, once;
* `UnitsFollow`: unit by unit, the frames that were output are numbered without a
  gap, each with its block, and no arbitrary OBU is in two units;
* `FailuresExplained` and `NoneLost`: the functions that failed and what is
  missing because of it; as long as no write failed, every sequencer is open or
  they are finalized.

The property itself speaks of a finished encoder only, and of the sequence that
was made as a whole. Induction has to follow one call, which encodes a frame, then
pops it, its block and its OBUs, then pushes the unit: one lemma for each of these
functions says which part it disturbs and how the part comes back (`...Makes`,
`...Closes`, `...Keeps`), and one for each public call that `Whole` is kept. They
use what `CallOutput` says of the caller: a block is passed with its frame.

### The frame generator

`AudioFrameGenerator_proofs` proves, for any finite set of elements with any
substreams, any size of a frame, and any codecs, trimming and numbers of samples
that `Setup` and `Legal` admit, and for every interleaving of the two threads (from
`ElementAssumption`: there are elements, finitely many, each with a substream;
`FAssumption`; `NoneAssumption`: no label is not a sequence; `SetupsAssumption`):

| Theorem | Statement |
|---|---|
| `GeneratorIsInvariant` | `Spec => []IInv` |
| `SamplesAreNeverLost` | `Spec => []NothingLost` |
| `UnitsAreWhole` | `Spec => []TemporalUnits` |
| `TrimmingIsAsAsked` | `Spec => []TrimsAsAsked` |

`TemporalUnits` holds the type invariant. The inductive invariant `IInv` follows
the samples from the caller to the output, and compares the substreams, which
proceed independently until they are popped together:

* `GenOK`: the types, which entries of the two maps may be erased, and that only a
  codec with latency holds a frame, until it is finalized;
* `FramesFollow`: the frames of a substream, output or still inside, follow each
  other without a gap, and its clock is at the end of the last;
* `SamplesFollow`: the samples in them and behind them are padding for the delay,
  those of the rounds made so far, and at most a frame of padding, which is there
  only when nothing more is added and nothing is left;
* `LeftAgrees`: how many samples are left depends only on how many frames were
  made (`Backlog`), so that substreams with as many frames end together; what a
  codec is still to be given is never more than what the OBUs still need;
* `LabelsWait`: the channels of an element wait for each other;
* `TrimsFollow`: frame `k` that was output is trimmed at its front by what `k - 1`
  frames leave of the user's trim (`Rest`), those still inside by what they leave of
  the codecs' delay; only the last frame is trimmed at its end, by the padding while
  it is inside and by the user's trim once it was popped as the last one; a call has
  failed only if the user's trim and the padding do not fit together;
* `InStep`: as long as no call failed, either no substream has ended or all have,
  and all have as many frames while they are flushed; every sample was added before
  `Finalize`, and from then on an encoder that has a frame left to pop when it is
  finalized is one of which `leftover` says so (`EndsAsAsked`).

Without `LeftAgrees` and `InStep` an encoder could be finalized while another still
has samples, and a unit would lack a substream. `RoundKeeps` is the centre: a round
of `MaybeEncodeFramesForAudioElement`, with its down-mixing, padding, encoding and,
where the loop goes on, its second iteration, makes one frame of every substream
of the element. `AddingKeeps` and `FlushKeeps` apply it to a call of `AddSamples`
and, by induction over the elements in whatever order, to a flush;
`FinalizingKeeps`, `PoppingKeeps` and `DeletingKeeps` are the rest of `OutputFrames`.
They rest on lemmas about what `FlattenSeq` returns (in `DataInduction`) and about
the front and the rest of a queue.

`TrimsFollow` is about frames, `TrimsAsAsked` about what is played of all of them.
For the first, `RefusedRound` and `RefusedPop` show why a round or a pop is refused:
the last round is the only one that pads, and what it pads is `PaddingAtEnd`, whatever
the calls of `AddSamples` were (`PaddingAtEndIs`); `RoundKeepsTrims` and `PoppingTrims`
follow the trims of one substream. When the consumer is done, the frames of a
substream hold all that was added and the padding (`AllIsInside`). `KeptCounts` then
says what is played of one frame, `FramesCount` adds that up by induction over the
frames, and `OutIsAsked` compares the sum with what the user asked for. The exception
of `TrimsAsAsked` is in the theorem too: a run in which nothing was left at `Finalize`
and something should have been trimmed from the end (section 5).

### The read buffer

`ReadBitBuffer_proofs` proves, for every capacity, size of the source and position
that is sought, and reads of up to 64 bits:

| Theorem | Statement |
|---|---|
| `WindowIsCoherent` | `Spec => []Coherent` |
| `ReadsAreExact` | `Spec => []ReadExactUnlessSplit` |
| `RewindingIsExact` | `Spec => SeekReturnsToTold` |

`Coherent` needs the types only. `ReadExactUnlessSplit` says what a read returns: all
the bits that were asked for or, only if it ends inside a byte other than the one
it began in and that byte is the first one behind the window (`LastByteSplit`), all
but the bits of that byte. It speaks of reads that have
ended, so that `IInv` adds what holds in the middle of one (`LoopInv`): the bits
gathered are those from where the read began, the cursor is behind them and at
the edge of a byte, the source has the rest, and the read ends in another byte
than it began. `MemoryInv` says that a memory buffer has all of its source loaded.
`RewindingIsExact` needs `ToldInv`: the position that `Tell` returned designates
the same bit of everything ever pushed, whatever was flushed since. Most of the
work is arithmetic of bits and bytes, kept in lemmas that know nothing of the
buffer.

### Temporal units

`ObuProcessor_proofs` proves, for all streams, that is, any OBUs in any order and
number, any substreams and parameters, and however the data arrives:

| Theorem | Statement |
|---|---|
| `WorkIsInvariant` | `Spec => [](WorkInv /\ ControlOK)` |
| `TimesAlwaysAgree` | `Spec => []TimesAgree` |
| `NothingIsEverLost` | `Spec => []NothingLost` |
| `UnitsAreAsEncoded` | `Spec => []UnitsAsEncoded` |

`WorkInv` says of the unit that is assembled what the properties say of those
that were output: it has a time if and only if something is in it, and all that
is in it has that time (`UnitInv`); the clock of a substream is at the end of the
last frame read of it (`ClockInv`, `AcceptedInv`); and what is in a unit was read,
a block before the frames it is for (`HeldInv`). `NothingLost` compares the frames
in the units with those read, in order. The frames of a number of units are a
recursive function; `FramesOutput` is evaluated with the lemmas of
`DataInduction`. The invariant is about the work only, and not about who
calls, so that the decoder's proof uses its lemmas as they are.

`UnitsAsEncoded` says that for a regular stream (`IsRegular`, which is all that is
assumed of it) the units that come out are those the encoder wrote, each whole, in
order, with nothing of another. The code does not see where the encoder ended a
unit; it sees times, delimiters, and the end of the data. `RegularInv` relates the
two:

* the units that were output are the first that were encoded (`Encoded`), and the
  current unit is exactly what was read of the next one (`Holds`);
* the clock of every substream, and of every parameter, is where the last of its
  frames or blocks that was read ends (`FrameClocks`, `BlockClocks`).

When the next frame or block is read, `UnitInTime` gives the time at which it
begins, in terms of the stream; the clocks give the same time in terms of the code
(`BeginsInTime`). So what belongs to the unit being assembled is put into it, and what
begins the unit behind it is put there (`NextIsNear`), which ends the unit when all
of it was read. A block counts only if all substreams agree on the time: they do,
since blocks precede the frames of their unit (`ClocksBeforeUnit`). Where the end of
data ends a unit, `CutInv` is needed: a caller announces the end only at an end, so
that the unit cannot be a part of one (`CutEndsUnit`).

### The decoder's API

`IamfDecoder_proofs` proves, for the same streams and every sequence of calls,
faults and resets:

| Theorem | Statement |
|---|---|
| `DecoderIsInvariant` | `DecoderSpec => []DecoderInv` |
| `WaitingStaysIntact` | `DecoderSpec => []WaitingIsIntact` |
| `UnitsComeInOrder` | `DecoderSpec => []UnitsInOrder` |
| `DecodedTimesAgree` | `DecoderSpec => [](TimesAgree /\ NothingLost)` |
| `DecodedUnitsAreAsEncoded` | `DecoderSpec => []UnitsAsEncoded` |
| `DrainedIsAlwaysComplete` | `DecoderSpec => []DrainedIsComplete` |

`DecoderInv` adds to `WorkInv` that a call outputs at most one unit (`CallInv`),
that nothing waits while a call decodes unless a buffer was too small
(`SpansInv`), that without faults exactly what was read is flushed, at the end of
a call (`FlushInv`), and that a call delivers only what was there before it
(`DeliveryInv`). The first is what the others rest on: with two units in one call
the first would be rendered over.

`DrainedIsComplete` says that a caller who signalled the end and is told that no unit
is available has had every unit it pushed, completely. Its invariant is
`DrainingInv`, that is `DecoderInv`, `RegularInv` and `DrainInv`: a call that was told
of the end and returns no unit has read everything it received and holds nothing
back. That needs that no unit is dropped for having parameter blocks only, which is
so in a regular stream, where a unit has frames. What was rendered is then all that
was encoded up to the end (`NoUnitLost`), delivered in order (`DeliveredInOrder`), and
an induction over the units counts them. As in the run, the caller signals the end
only behind a complete unit (`MaySignal`), and the streams are regular.

### The descriptors

`Descriptors_proofs` proves, for all sequences of OBUs of which each is `WellFormed`,
all requests and resets, and however the bytes arrive:

| Theorem | Statement |
|---|---|
| `ParsingIsInvariant` | `Spec => []IInv` |
| `ReadingIsTheSameInPieces` | `Spec => []SameInPieces` |
| `NothingEverDangles` | `Spec => []NothingDangling` |
| `RequestIsHonoured` | `Spec => []SelectionHonoursRequest` |
| `ProfilesAlwaysNest` | `Spec => []ProfilesNest` |

`IInv` says of the parser that what it keeps is what the OBUs before its position
give, whichever calls they came in (`ReadingInv`, `FromFirst`): of each id the first
codec config, the first element whose codec config was there before it, and every
mix whose elements were. `Firsts` states it without the order of reading, so that
reading in pieces, a rewind and reading at once lead to one result. An element that
may refer to a codec config that was moved has one inserted behind it
(`MovedLater`). `CheckedInv` keeps what `Initialize` checked and what was selected,
and `FailedInv` why a call failed: for a consistent sequence only because nothing
in it can be rendered.

`ProfilesAlwaysNest` looks through all filters at once: each leaves a set of profiles
which with a profile has those that extend it, because the limits rise from one to
the next. One lemma per filter says so; what it rests on is that the elements of a
mix, and the channels they add up to, are finitely many.

### Induction over numbers

The theorems of the library about induction take the statement as an operator,
which the provers here cannot instantiate. Those about well-founded relations
can be used with sets: `DataInduction` derives from them that a non-empty set of
numbers has a least member, that a set with zero and all successors is `Nat`,
and that a recursive function on numbers, or on the positions of a sequence, has
the values its definition gives. On them rest the lemmas about `FlattenSeq`,
appending and concatenation that several proofs share.

### What is only model-checked

* Liveness under fairness: `EverythingIsOutput`, `Drains`, and `Ends` of the frame
  generator and of the encoder. So is what needs that something was enabled.
* `ObuSyntax`, `Demixing`, `MixPresentationFinalizer` with `Rendering`, and
  `ParameterBlockGenerator`: one path
  through large tables (fields, mixers, matrices, curves), of which the instances
  take every entry. There is little that a proof for all constants would add.

## 5. What the work showed

One disagreement between the code and what it says of itself is a run:

* **The decoder demixes with the default parameters.** Only `IamfEncoder` tells a
  `ParametersManager` the demixing blocks (`cli/iamf_encoder.cc:543`). The
  decoder's `ObuProcessor` creates one, asks it and updates it
  (`cli/obu_processor.cc:66-89`), but never tells it the blocks that it read, so
  that every frame is demixed with the defaults of the definition, whatever the
  blocks say (run `DemixingDefaults`).

Further statements, each of which TLC refutes with the configuration of a run in
which the lines given here are changed, and that one property is left:

* **A read may silently miss its last bits** (`ReadBitBuffer.cfg` with `Kinds =
  {"File"}` and `ReadExact`). In `ReadUnsignedLiteralInternal` the window is
  refilled in the loop over whole bytes only. If the last, partial byte is the
  first one behind the window, it is not loaded: the read returns `OkStatus`
  without its bits, and the position is short of the end. Any other read is exact,
  also one that ends inside a byte, and this one loses no other bits
  (`ReadExactUnlessSplit`). `remaining_bits_to_read`
  is settled before the read, so the `ABSL_CHECK_EQ` that follows always holds
  (`common/read_bit_buffer.cc:402-407`).
* **Delayed units are dropped by Close** (`ObuSequencer.cfg` with `Kinds =
  {"Delaying"}`, `Faulty = {}` and `CompleteWhenClosed`). A delaying sequencer
  that was given fully trimmed units only closes with `OkStatus` without writing
  them (`cli/obu_sequencer_base.cc:552-580`). No class under `src/` other than
  those in tests delays.
* **No bytes does not mean nothing left** (`IamfDecoder.cfg` with `MaxFaults = 0`,
  `MaxResets = 0`, `ShortBuffers = FALSE` and `NoBytesIsComplete`). A completely
  trimmed unit is output as zero bytes; a caller that stops there, as the
  interface tells it to, misses the rest
  (`include/iamf_tools/iamf_decoder_interface.h:237`). A caller that asks
  `IsTemporalUnitAvailable` does not (`DrainedIsComplete`).
* **A frame after the last one** (`IamfEncoderExtraneous.cfg`, `MCIamfEncoder`). The
  comment at `cli/iamf_encoder.cc:577` says of arbitrary OBUs without a frame that
  there will be no further frames, and the code checks that the generator has
  none ready (:570-576). When a call outputs the last frame of the samples, the
  padding of a codec with a delay is not encoded before the next call
  (`audio_frame_generator.cc:885-888`): its frame may follow the arbitrary OBUs.
* **Projected channels are not mixed** (`Rendering.cfg` with
  `Scenarios <- MixedOrder` and `EveryChannelIsHeard`).
  Ambisonics whose projection makes more channels than are sent loses those
  beyond the number sent: the mixing loop runs over `input_samples.size()`
  instead of the projected channels (`cli/renderer/loudspeakers_renderer.cc:147`).
* **Channels of a projection have no substream** (`Demixing.cfg` with `Scenarios
  <- MCProjection` and `EveryChannelHasASubstream`). Substream i, when it is not a
  pair, is given channel `2 * coupled_substream_count + i`
  (`cli/obu_with_data_generator.cc:543-546`). Its index counts the pairs already,
  so that as many channels are skipped as there are pairs, where the comment above
  says one channel each.
* **A long extension is taken for payload** (`ObuSyntaxLongExtension.cfg`,
  `MCObuSyntax`). `GetObuPayloadSize` takes the number of extension bytes as a
  `uint8_t` (`obu/obu_header.cc:190-198`): with 256 of them or more, the payload is
  not "the number of bytes that contain payload data".
* **Data of another unit is handed over** (`ParameterBlockGenerator.cfg` with
  `Scenarios <- MCStale`, `MaxRetries = 0` and `HandedOverInTime`). The main
  program reuses its slots for every unit since "every temporal unit will fill the
  same slots" (`cli/encoder_main_lib.cc:192`). A parameter with no block in some
  unit gets the block of the unit before again, which the generator refuses.
* **Samples may not be trimmed from the end** (`MCAudioFrameGenerator` with
  `AudioFrameGenerator.cfg`, whose only property is `TrimsSamplesFromTheEnd`). The
  user's end trim is applied to a frame only when its encoder is finished, which
  needs `Finalize`. If the other thread has output the last frame before that,
  and no padding remains to be encoded, no frame is left to trim: all calls return
  `OkStatus` and the trim is lost. `TrimsAsAsked` excepts the case.
* **Without samples the generator may not end** (the same with
  `Setups <- MCSetupsWithoutSamples` and `Ends` only). If `Finalize` is called
  before any samples are added and some codec delays, the padding for the delay
  is never encoded, since `SamplesReadyForAudioElement` waits for labels that
  never come; the substreams never run empty, so that `GeneratingFrames` stays
  true and a loop on it spins.

Noticed, and taken into account by the exceptions the properties state:

*Sequencers, decoder, frame generator*

* After a failed `Close` in delaying mode the first timestamp is set and the
  state is still open: a later push writes a unit with no descriptors in front
  (`Retries = TRUE` violates `UnitsFollowDescriptors`).
* Any call on a closed streaming sequencer fails and, through the abort, clears
  the final descriptors that could still be fetched
  (`cli/obu_sequencer_streaming_iamf.cc:80-90`).
* `UpdateDescriptorObusAndClose` on a delaying sequencer whose descriptors were
  never pushed finalizes descriptors that are not in the output.
* `MaybeRemoveFile` (`cli/obu_sequencer_iamf.cc:52`) reports success as failure.
* `GetOutputTemporalUnit` decodes the next unit even when the buffer was too
  small and the samples are kept: they are overwritten (`shorts`). It also
  returns the error of that decoding although bytes were written.
* The flush at the end of `DecodeOneTemporalUnit` is skipped on errors, so the
  bytes of a unit that cannot be rendered stay in the buffer until `Reset`.
* A missing frame makes its substream lag for ever; a refused parameter block
  still advances its clock (`cli/global_timing_module.cc:121-132`).
* The delimiter that ends a unit is forgotten with it, so the unit after it is
  ended by the next time only; two delimiters in a row return no unit though
  data remain.
* `ResetWithNewMix` that fails to create a processor leaves one that refers to
  a destroyed buffer (`api/decoder/iamf_decoder.cc:492-520`).
* Elements that were given different numbers of samples make the flush depend on
  the order of the elements: once a substream's data is erased, a later
  iteration fails with "Failed to find substream data" though the cause is the
  caller's. `AudioFrameGenerator` gives all the same number.
* A call of `AddSamples` with less than a frame that is not the last pads in the
  middle of the stream when codecs delay; the model's callers do not make it.
* The parameters manager and the timing module are used by the generator under
  its mutex and by `IamfEncoder` without it.
* The guard that disables `Seek` after `Flush` is defeated by any read.

*Encoder and parameter blocks*

* A push that fails loses the unit for the sequencers behind it, and a retry of
  `FinalizeEncode` after a failed close fails at the first one, which is closed.
  A failure to finalize the descriptors is permanent. `Create` that is refused
  leaves the files of the sequencers before it open.
* `Encode` twice before an output replaces the samples but adds to the metadata
  of the blocks.
* Blocks generated before a refused one stay in the encoder while their metadata
  is kept: a retry generates them again with a clock that moved, and cannot
  succeed; only a gap of one block does.
* An element of objects has no parameter definitions, whatever the metadata says
  (`CreateObjects`). A gain outside 16 bits is refused by the generator, but
  wrapped by the partitioner. A recon gain above 255 (a quiet channel, made
  louder by the codec) is converted to 8 bits as the build does it
  (`cli/parameter_block_generator` near :258, `saturates`).
* A recon gain is required for every further layer of a lossy element, but
  refused for one that demixes nothing (5.1 to 5.1.2): such an element is created
  and can be encoded only with the override. Layers that skip a number of
  surround channels (mono to 3.1.2) share bits, and the value depends on the
  order of a hash map (`OneStepUp`).
* Metadata of a block that does not start with a unit is never handed over by
  the main program; a block that starts inside a unit is output with the next.

*Descriptors, demixing, rendering, syntax*

* An audio element points into a `flat_hash_map` of codec configs, which a later
  insertion moves, against `cli/descriptor_obu_parser.h:33-36` (`dangling`).
* An element with two demixing or two recon gain definitions is accepted by its
  reader, whose check stands behind a `switch` that returns in every case
  (`obu/audio_element.cc:906`), and is refused with the whole sequence by
  `ParametersManager` (`cli/parameters_manager.cc:118-122`).
* Elements of objects count no channels against the limits of a profile. A mix
  presentation that is repeated is kept twice.
* Elements that share a demixing parameter: the update for the first forgets the
  block of the frame (`cli/parameters_manager.cc:83-85`). A block after a frame
  without one is refused (:213). Output gains weaken the samples that are encoded
  and are not undone.
* A failed push leaves the layouts before the failure one unit ahead, and a
  finalize that failed on a wrong loudness succeeds when it is repeated. Gains of
  a block are applied from its first tick also when samples are trimmed there.
* The matrices from 7.1.5.4 send side, rear and top channels to the centre too; the
  one from 10.2.9.3 crosses the two bottom channels (`WrongSide`).
* Reading accepts what writing refuses: definitions that are not validated,
  a mix without a stereo layout, odd tags (`ReadPermissively`); the config of an
  extension element is lost on reading. A subblock of length zero can be written
  but not read.

## 6. What is not modelled

* The conversion of ADM files and of user metadata into mix presentations and
  codec configs: a copy of fields, without state. Wav files: input and output.
* The numeric utilities, and the formats of samples: pure conversions of values
  that no property distinguishes. What codecs, loudness calculators and the
  binaural renderer compute is external.
* `SubstreamFrames`' recycling of frames, which `AudioFrameGenerator` abstracts to
  queues; the 32-bit sum of trims in `TemporalUnitView`; how the write buffer
  grows; leb128 values from 2^28.
* In `AudioFrameGenerator`: down-mixing and substreams of two channels, which
  `Demixing` models without threads. In `ParametersManager`: the recon gains,
  which only tests ask for.
* In `IamfDecoder`: descriptors that cannot be parsed, which make a call fail at
  once (`Descriptors` has them), and the format of the samples.
* Logging, file system errors other than "a write failed", memory lifetime other
  than `dangling`, wall-clock time (no renderer under `src/` makes the finalizer
  wait).

## 7. The plan

Done: all modules of section 2 and the proofs of section 4. To come, in this
order:

1. `SubstreamFrames`: recycled frames and iterators against a queue.
2. One run that composes `IamfEncoder` with `AudioFrameGenerator` in full, in place
   of the counts it abstracts it to.
