------------------------ MODULE CapturePipeline_proofs -----------------------
(* For any ring, depth and number of frames: the types, that nothing is left  *)
(* behind between two calls, and that no picture is drawn over one that the   *)
(* transform has still to read, provided that it does not fall behind by a    *)
(* ring's worth of frames.                                                    *)
EXTENDS CapturePipeline, TLAPS

\* Media Foundation is started once for each encoder that got that far.
StartedOnce == startups = IF mfStarted THEN 1 ELSE 0

\* What is there, by where the call in progress is.
Up == /\ ready /\ hasCapture /\ hasEncoder
      /\ mfStarted /\ initialized /\ duplication # "none"
Down == /\ ~ready /\ ~hasCapture /\ ~hasEncoder
        /\ ~mfStarted /\ ~initialized /\ duplication = "none" /\ ~held
CallShape ==
  /\ call = "none" => (Up /\ ~held) \/ Down
  /\ call = "captureUp" =>
       /\ ~ready /\ hasCapture /\ ~hasEncoder
       /\ ~mfStarted /\ ~initialized /\ duplication # "none" /\ ~held
  /\ call = "encoderFailed" =>
       /\ ~ready /\ hasCapture /\ hasEncoder
       /\ ~initialized /\ duplication # "none" /\ ~held
  /\ call = "acquired" => Up
  /\ call = "submitted" => Up /\ ~held

ShapeIInv == StartedOnce /\ CallShape

LEMMA InitShape == PipelineInit => ShapeIInv
  BY DEF PipelineInit, EncoderInit, ShapeIInv, StartedOnce, CallShape, Up, Down

LEMMA ShapeStep == ShapeIInv /\ [PipelineNext]_pipelineVars => ShapeIInv'
<1> SUFFICES ASSUME ShapeIInv, [PipelineNext]_pipelineVars PROVE ShapeIInv'
  OBVIOUS
<1> USE DEF ShapeIInv, StartedOnce, CallShape, Up, Down
<1>1. CASE CaptureInit
  BY <1>1 DEF CaptureInit, encoderVars
<1>2. CASE CaptureInitFails
  BY <1>2 DEF CaptureInitFails, encoderVars
<1>3. CASE EncoderComesUp
  BY <1>3 DEF EncoderComesUp, InitSucceeds
<1>4. CASE EncoderInitFails
  BY <1>4 DEF EncoderInitFails, InitMFStartupFails, FindEncoderTransformFails,
     NegotiationFails, encoderVars
<1>5. CASE InitUnwinds
  BY <1>5 DEF InitUnwinds, Destroy, CaptureShutdown
<1>6. CASE AcquireFrame
  BY <1>6 DEF AcquireFrame, encoderVars
<1>7. CASE FrameSubmitted
  BY <1>7 DEF FrameSubmitted, SubmitFrame, ReleaseFrame
<1>8. CASE FrameNotSubmitted
  BY <1>8 DEF FrameNotSubmitted, SubmitFrameFails, ReleaseFrame
<1>9. CASE FrameReturns
  BY <1>9 DEF FrameReturns, GetSample, GetNothing, LoseSample, encoderVars
<1>10. CASE Shutdown
  BY <1>10 DEF Shutdown, Destroy, CaptureShutdown, encoderVars
<1>11. CASE OutputLost
  BY <1>11 DEF OutputLost, encoderVars
<1>12. CASE TransformEncodes
  BY <1>12 DEF TransformEncodes, Encode, exportVars
<1>13. CASE UNCHANGED pipelineVars
  BY <1>13 DEF pipelineVars, encoderVars, exportVars
<1> QED
  BY <1>1, <1>2, <1>3, <1>4, <1>5, <1>6, <1>7, <1>8, <1>9, <1>10, <1>11, <1>12, <1>13
  DEF PipelineNext

LEMMA ShapeInvariant == PipelineSpec => []ShapeIInv
  BY InitShape, ShapeStep, PTL DEF PipelineSpec

\* NothingLeftBehind: every way out of a call undoes what it did.
THEOREM NothingLeftBehindTheorem == PipelineSpec => []NothingLeftBehind
<1>1. ShapeIInv => NothingLeftBehind
  BY DEF ShapeIInv, StartedOnce, CallShape, Up, Down, NothingLeftBehind
<1> QED
  BY <1>1, ShapeInvariant, PTL
-----------------------------------------------------------------------------
\* The encoder has counted a frame for every frame acquired, at most, and not
\* yet the one that is acquired.
Uncounted == IF call = "acquired" THEN 1 ELSE 0
FramesCounted == frameIndex + Uncounted <= frames

TypeIInv == PipelineTypeOK /\ FramesCounted

\* The parts of the types that the encoder and that the exports keep.
EncoderTypes ==
  /\ mfStarted \in BOOLEAN /\ transform \in BOOLEAN /\ initialized \in BOOLEAN
  /\ gpu \in BOOLEAN /\ aware \in BOOLEAN
  /\ header \in BOOLEAN /\ published \in BOOLEAN
ExportTypes ==
  /\ hasCapture \in BOOLEAN /\ hasEncoder \in BOOLEAN /\ ready \in BOOLEAN
  /\ capturing \in BOOLEAN /\ held \in BOOLEAN
  /\ duplication \in {"none", "live", "lost"}
  /\ call \in {"none", "captureUp", "encoderFailed", "acquired", "submitted"}
  /\ frames \in 0 .. MaxFrames
  /\ inits \in 0 .. MaxInits
QueueTypes ==
  /\ frameIndex \in 0 .. MaxFrames
  /\ ring \in [Slots -> 0 .. MaxFrames]
  /\ pending \in Seq(Samples)
  /\ encoded \in Seq(Encodings)
OutTypes ==
  out \in [pts : 0 .. MaxFrames, picture : 0 .. MaxFrames,
           key : BOOLEAN, headers : 0 .. 1]

LEMMA TypeParts ==
  PipelineTypeOK <=> /\ EncoderTypes /\ ExportTypes /\ QueueTypes /\ OutTypes
                     /\ startups \in 0 .. 1
  BY DEF PipelineTypeOK, EncoderTypes, ExportTypes, QueueTypes, OutTypes

\* Which texture is drawn next is one of the ring.
LEMMA SlotInRing == frameIndex \in Nat => Slot \in Slots
  BY RingSizeAssumption DEF Slot, Slots

LEMMA DrawnInRing ==
  ASSUME TypeIInv, frames \in 1 .. MaxFrames
  PROVE  Drawn(frames) \in [Slots -> 0 .. MaxFrames]
  BY DEF TypeIInv, PipelineTypeOK, Drawn

\* What a submitted frame does to the ring and to the queue.
LEMMA Submitted ==
  ASSUME SubmitFrame(frames)
  PROVE  /\ frameIndex' = frameIndex + 1
         /\ ring' \in {ring, Drawn(frames)}
         /\ \/ pending' = pending
            \/ pending' = Append(pending, [pts |-> frames, slot |-> Memory])
            \/ /\ pending' = Append(pending, [pts |-> frames, slot |-> Slot])
               /\ ring' = Drawn(frames)
  BY DEF SubmitFrame, SubmitFrameGpu, SubmitFrameCpu, Downgrade,
     SubmitNv12MemoryBuffer, ProcessInput

LEMMA InitTypes == PipelineInit => TypeIInv
<1> SUFFICES ASSUME PipelineInit PROVE TypeIInv
  OBVIOUS
<1> USE RingSizeAssumption, BoundsAssumption DEF PipelineInit, EncoderInit
<1>1. EncoderTypes
  BY DEF EncoderTypes
<1>3. 0 \in 0 .. MaxFrames /\ 0 \in 0 .. MaxInits /\ 0 \in 0 .. 1
  OBVIOUS
<1>4. ExportTypes /\ startups \in 0 .. 1
  BY <1>3, Zenon DEF ExportTypes
<1>2. QueueTypes /\ OutTypes
  BY DEF QueueTypes, OutTypes, BlankRing, NoPicture, NothingOut
<1> QED
  BY <1>1, <1>2, <1>4, TypeParts DEF TypeIInv, FramesCounted, Uncounted

LEMMA EncoderTypesStep ==
  ASSUME TypeIInv, PipelineNext
  PROVE  EncoderTypes'
<1> USE DEF EncoderTypes, TypeIInv, PipelineTypeOK, encoderVars
<1>1. CASE EncoderComesUp
  BY <1>1 DEF EncoderComesUp, InitSucceeds, InitGpuColorConversion, CaptureSequenceHeader
<1>2. CASE EncoderInitFails
  BY <1>2 DEF EncoderInitFails, InitMFStartupFails, FindEncoderTransformFails,
     NegotiationFails
<1>3. CASE InitUnwinds
  BY <1>3 DEF InitUnwinds, Destroy
<1>4. CASE Shutdown
  BY <1>4 DEF Shutdown, Destroy
<1>5. CASE FrameSubmitted
  BY <1>5 DEF FrameSubmitted, SubmitFrame, SubmitFrameGpu, SubmitFrameCpu, Downgrade
<1>6. CASE FrameNotSubmitted
  BY <1>6 DEF FrameNotSubmitted, SubmitFrameFails, Downgrade
<1>7. CASE FrameReturns
  BY <1>7 DEF FrameReturns, GetSample, GetNothing, LoseSample, CaptureSequenceHeader
<1>8. CASE TransformEncodes
  BY <1>8 DEF TransformEncodes, Encode
<1>9. CASE CaptureInit \/ CaptureInitFails \/ AcquireFrame \/ OutputLost
  BY <1>9 DEF CaptureInit, CaptureInitFails, AcquireFrame, OutputLost
<1> QED
  BY <1>1, <1>2, <1>3, <1>4, <1>5, <1>6, <1>7, <1>8, <1>9 DEF PipelineNext

LEMMA ExportTypesStep ==
  ASSUME TypeIInv, PipelineNext
  PROVE  ExportTypes'
<1> USE BoundsAssumption DEF ExportTypes, TypeIInv, PipelineTypeOK
<1>1. CASE CaptureInit \/ CaptureInitFails
  <2>1. inits' \in 0 .. MaxInits
    BY <1>1 DEF CaptureInit, CaptureInitFails
  <2> QED
    BY <1>1, <2>1, Zenon DEF CaptureInit, CaptureInitFails
<1>5. CASE AcquireFrame
  <2>1. frames' \in 0 .. MaxFrames
    BY <1>5 DEF AcquireFrame
  <2> QED
    BY <1>5, <2>1, Zenon DEF AcquireFrame
<1>6. CASE OutputLost
  BY <1>6 DEF OutputLost
<1>2. CASE EncoderComesUp \/ EncoderInitFails \/ InitUnwinds
  BY <1>2 DEF EncoderComesUp, EncoderInitFails, InitUnwinds, CaptureShutdown
<1>3. CASE FrameSubmitted \/ FrameNotSubmitted \/ FrameReturns
  BY <1>3 DEF FrameSubmitted, FrameNotSubmitted, FrameReturns, ReleaseFrame
<1>4. CASE Shutdown \/ TransformEncodes
  BY <1>4 DEF Shutdown, CaptureShutdown, TransformEncodes, exportVars
<1> QED
  BY <1>1, <1>2, <1>3, <1>4, <1>5, <1>6 DEF PipelineNext

LEMMA CountedStep ==
  ASSUME TypeIInv, PipelineNext
  PROVE  FramesCounted'
<1>0. frameIndex \in Nat /\ frames \in Nat
  BY BoundsAssumption DEF TypeIInv, PipelineTypeOK
<1> USE <1>0 DEF FramesCounted, Uncounted, TypeIInv, encoderVars
<1>1. CASE CaptureInit \/ CaptureInitFails \/ AcquireFrame \/ OutputLost
  BY <1>1 DEF CaptureInit, CaptureInitFails, AcquireFrame, OutputLost
<1>2. CASE EncoderComesUp \/ EncoderInitFails \/ InitUnwinds
  BY <1>2 DEF EncoderComesUp, EncoderInitFails, InitUnwinds, Destroy,
     InitSucceeds, InitMFStartupFails, FindEncoderTransformFails, NegotiationFails
<1>3. CASE FrameSubmitted
  BY <1>3, Submitted DEF FrameSubmitted
<1>4. CASE FrameNotSubmitted
  BY <1>4 DEF FrameNotSubmitted, SubmitFrameFails
<1>5. CASE FrameReturns
  BY <1>5 DEF FrameReturns, GetSample, GetNothing, LoseSample
<1>6. CASE Shutdown
  BY <1>6 DEF Shutdown, Destroy
<1>7. CASE TransformEncodes
  BY <1>7 DEF TransformEncodes, Encode, exportVars
<1> QED
  BY <1>1, <1>2, <1>3, <1>4, <1>5, <1>6, <1>7 DEF PipelineNext
\* The transform reads the ring or its own copy.
LEMMA EncodedTypes ==
  ASSUME TypeIInv, Encode
  PROVE  pending' \in Seq(Samples) /\ encoded' \in Seq(Encodings)
<1> DEFINE s == Head(pending)
<1> DEFINE picture == IF s.slot = Memory THEN s.pts ELSE ring[s.slot]
<1>1. pending \in Seq(Samples) /\ pending # <<>> /\ encoded \in Seq(Encodings)
  BY DEF TypeIInv, PipelineTypeOK, Encode
<1>2. s \in Samples /\ Tail(pending) \in Seq(Samples)
  BY <1>1
<1>3. s.pts \in 1 .. MaxFrames /\ picture \in 0 .. MaxFrames
  <2>1. s.pts \in 1 .. MaxFrames /\ s.slot \in 0 .. RingSize
    BY <1>2 DEF Samples
  <2>2. s.slot # Memory => s.slot \in Slots
    BY <2>1, RingSizeAssumption DEF Memory, Slots
  <2>3. s.slot # Memory => ring[s.slot] \in 0 .. MaxFrames
    BY <2>2 DEF TypeIInv, PipelineTypeOK
  <2> QED
    BY <2>1, <2>3, BoundsAssumption
<1>4. PICK key \in BOOLEAN : \E inband \in {FALSE, key} :
        encoded' = Append(encoded, [pts |-> s.pts, picture |-> picture,
                                    key |-> key, inband |-> inband])
  BY DEF Encode
<1>5. PICK inband \in BOOLEAN :
        encoded' = Append(encoded, [pts |-> s.pts, picture |-> picture,
                                    key |-> key, inband |-> inband])
  BY <1>4
<1>6. [pts |-> s.pts, picture |-> picture, key |-> key, inband |-> inband] \in Encodings
  BY <1>3, <1>4, <1>5, Zenon DEF Encodings
<1> HIDE DEF s, picture
<1> QED
  BY <1>1, <1>2, <1>5, <1>6 DEF Encode, s

\* A sample taken from the transform.
LEMMA SampleTypes ==
  ASSUME TypeIInv, GetSample
  PROVE  OutTypes' /\ encoded' \in Seq(Encodings)
<1> DEFINE s == Head(encoded)
<1>1. s \in Encodings /\ encoded' \in Seq(Encodings)
  BY DEF TypeIInv, PipelineTypeOK, GetSample
<1>2. s.pts \in 0 .. MaxFrames /\ s.picture \in 0 .. MaxFrames /\ s.key \in BOOLEAN
  BY <1>1, BoundsAssumption DEF Encodings
<1>3. Headers(s, header') \in 0 .. 1
  BY DEF Headers
<1>4. out' = [pts |-> s.pts, picture |-> s.picture, key |-> s.key,
              headers |-> Headers(s, header')]
  BY DEF GetSample
<1> HIDE DEF s
<1> QED
  BY <1>1, <1>2, <1>3, <1>4, Zenon DEF OutTypes

LEMMA QueueTypesStep ==
  ASSUME TypeIInv, PipelineNext, FramesCounted'
  PROVE  QueueTypes' /\ OutTypes'
<1>0. QueueTypes /\ OutTypes /\ FramesCounted /\ ExportTypes
  BY TypeParts DEF TypeIInv
<1> USE RingSizeAssumption, BoundsAssumption
<1>e. 0 \in 0 .. MaxFrames /\ <<>> \in Seq(Samples) /\ <<>> \in Seq(Encodings)
         /\ BlankRing \in [Slots -> 0 .. MaxFrames]
  BY DEF BlankRing, NoPicture
<1>1. CASE CaptureInit \/ CaptureInitFails \/ AcquireFrame \/ OutputLost
  BY <1>0, <1>1 DEF CaptureInit, CaptureInitFails, AcquireFrame, OutputLost,
     encoderVars, QueueTypes, OutTypes
<1>2. CASE EncoderComesUp \/ EncoderInitFails
  BY <1>0, <1>2 DEF EncoderComesUp, EncoderInitFails, InitSucceeds, encoderVars,
     InitMFStartupFails, FindEncoderTransformFails, NegotiationFails, QueueTypes,
     OutTypes
<1>3. CASE InitUnwinds \/ Shutdown
  BY <1>0, <1>3, <1>e DEF InitUnwinds, Shutdown, Destroy, encoderVars,
     QueueTypes, OutTypes
<1>4. CASE FrameSubmitted
  <2>1. SubmitFrame(frames) /\ call = "acquired" /\ call' = "submitted"
           /\ frames' = frames
    BY <1>4 DEF FrameSubmitted
  <2>2. frames \in 1 .. MaxFrames /\ frameIndex \in 0 .. MaxFrames
           /\ frameIndex + 1 \in 0 .. MaxFrames
    BY <1>0, <2>1 DEF QueueTypes, ExportTypes, FramesCounted, Uncounted
  <2>3. Drawn(frames) \in [Slots -> 0 .. MaxFrames]
    BY <2>2, DrawnInRing
  <2>4. /\ [pts |-> frames, slot |-> Memory] \in Samples
        /\ [pts |-> frames, slot |-> Slot] \in Samples
    BY <2>2, SlotInRing DEF Samples, Memory, Slots
  <2>5. ring' \in [Slots -> 0 .. MaxFrames] /\ frameIndex' \in 0 .. MaxFrames
    BY <1>0, <2>1, <2>2, <2>3, Submitted DEF QueueTypes
  <2>6. pending' \in Seq(Samples)
    <3>1. PICK slot \in {Memory, Slot} :
            pending' \in {pending, Append(pending, [pts |-> frames, slot |-> slot])}
      BY <2>1, Submitted
    <3>2. [pts |-> frames, slot |-> slot] \in Samples /\ pending \in Seq(Samples)
      BY <1>0, <2>4, <3>1 DEF QueueTypes
    <3> QED
      BY <3>1, <3>2
  <2>7. UNCHANGED <<encoded, out>>
    BY <2>1 DEF SubmitFrame
  <2> QED
    BY <1>0, <2>5, <2>6, <2>7 DEF QueueTypes, OutTypes
<1>5. CASE FrameNotSubmitted
  <2>1. call = "acquired" /\ SubmitFrameFails(frames)
    BY <1>5 DEF FrameNotSubmitted
  <2>2. frames \in 1 .. MaxFrames
    BY <1>0, <2>1 DEF QueueTypes, ExportTypes, FramesCounted, Uncounted
  <2>3. ring' \in [Slots -> 0 .. MaxFrames]
    BY <1>0, <2>1, <2>2, DrawnInRing DEF SubmitFrameFails, Downgrade, QueueTypes
  <2> QED
    BY <1>0, <2>1, <2>3 DEF SubmitFrameFails, QueueTypes, OutTypes
<1>6. CASE FrameReturns
  <2>1. CASE GetSample
    BY <1>0, <2>1, SampleTypes DEF GetSample, QueueTypes
  <2>2. CASE GetNothing
    BY <1>0, <2>2 DEF GetNothing, encoderVars, QueueTypes, OutTypes
  <2>3. CASE LoseSample
    BY <1>0, <2>3 DEF LoseSample, QueueTypes, OutTypes
  <2> QED
    BY <1>6, <2>1, <2>2, <2>3 DEF FrameReturns
<1>7. CASE TransformEncodes
  BY <1>0, <1>7, EncodedTypes DEF TransformEncodes, Encode, QueueTypes, OutTypes
<1> QED
  BY <1>1, <1>2, <1>3, <1>4, <1>5, <1>6, <1>7 DEF PipelineNext

LEMMA TypeStep ==
  TypeIInv /\ ShapeIInv' /\ [PipelineNext]_pipelineVars => TypeIInv'
<1>1. CASE UNCHANGED pipelineVars
  BY <1>1 DEF pipelineVars, encoderVars, exportVars, TypeIInv, PipelineTypeOK,
     FramesCounted, Uncounted
<1>2. ASSUME TypeIInv, ShapeIInv', PipelineNext PROVE TypeIInv'
  <2>1. startups' \in 0 .. 1
    BY <1>2 DEF ShapeIInv, StartedOnce
  <2>2. EncoderTypes' /\ ExportTypes' /\ FramesCounted'
    BY <1>2, EncoderTypesStep, ExportTypesStep, CountedStep
  <2>3. QueueTypes' /\ OutTypes'
    BY <1>2, <2>2, QueueTypesStep
  <2> QED
    BY <2>1, <2>2, <2>3, TypeParts DEF TypeIInv, PipelineTypeOK, EncoderTypes,
       ExportTypes, QueueTypes, OutTypes
<1> QED
  BY <1>1, <1>2

\* The types of the pipeline, for any ring and any number of frames; the count
\* of the encoder stays below that of the frames because every frame is
\* submitted at most once.
THEOREM PipelineTypeCorrect == PipelineSpec => []TypeIInv
  BY InitTypes, TypeStep, ShapeInvariant, PTL DEF PipelineSpec
-----------------------------------------------------------------------------
LEMMA DivMod ==
  ASSUME NEW R \in Int, R > 0, NEW a \in Int
  PROVE  a = R * (a \div R) + (a % R)
  BY Z3

\* Two numbers less than a ring apart are not the same texture.
LEMMA NearSlotsDiffer ==
  ASSUME NEW R \in Nat \ {0}, NEW a \in Nat, NEW k \in Nat, k < a, a - k < R
  PROVE  a % R # k % R
<1> SUFFICES ASSUME a % R = k % R PROVE FALSE
  OBVIOUS
<1> DEFINE d == (a \div R) - (k \div R)
<1>0. R \in Int /\ R > 0 /\ a \in Int /\ k \in Int
  OBVIOUS
<1>1. /\ a = R * (a \div R) + (a % R) /\ k = R * (k \div R) + (k % R)
      /\ a \div R \in Int /\ k \div R \in Int /\ a % R \in Int
  <2>1. a = R * (a \div R) + (a % R)
    BY <1>0, DivMod
  <2>2. k = R * (k \div R) + (k % R)
    BY <1>0, DivMod
  <2>3. a \div R \in Int /\ k \div R \in Int /\ a % R \in Int
    BY <1>0
  <2> QED
    BY <2>1, <2>2, <2>3
<1>2. d \in Int /\ a - k = R * d
  BY <1>1
<1> HIDE DEF d
<1>3. CASE d <= 0
  <2>1. R * d <= 0
    BY <1>2, <1>3
  <2> QED
    BY <1>2, <2>1
<1>4. CASE d >= 1
  <2>1. R * d >= R
    BY <1>2, <1>4
  <2> QED
    BY <1>2, <2>1
<1> QED
  BY <1>2, <1>3, <1>4

\* A texture that is still to be read shows its frame, and was drawn less than
\* a ring ago: the encoder has not counted more frames since than were captured.
DrawnAt(i, k) ==
  /\ pending[i].slot = k % RingSize
  /\ k < frameIndex
  /\ frameIndex - k + Uncounted <= frames - pending[i].pts + 1
RingKept ==
  \A i \in 1 .. Len(pending) : pending[i].slot # Memory =>
     /\ ring[pending[i].slot] = pending[i].pts
     /\ \E k \in Nat : DrawnAt(i, k)

\* While a frame is held the transform is not further behind than it may be.
LagKept ==
  call = "acquired" =>
    \A i \in 1 .. Len(pending) : frames - pending[i].pts <= Lag

RingIInv == RingKept /\ LagKept

\* The texture drawn next is none of those.
LEMMA NextSlotIsFree ==
  ASSUME TypeIInv, RingIInv, Lag < RingSize, call = "acquired",
         NEW i \in 1 .. Len(pending), pending[i].slot # Memory
  PROVE  pending[i].slot # Slot
<1>1. PICK k \in Nat : DrawnAt(i, k)
  BY DEF RingIInv, RingKept
<1>2. pending[i] \in Samples /\ frameIndex \in Nat /\ frames \in Nat
  BY BoundsAssumption DEF TypeIInv, PipelineTypeOK
<1>3. pending[i].pts \in Nat /\ frames - pending[i].pts <= Lag
  BY <1>2 DEF Samples, RingIInv, LagKept
<1>4. k < frameIndex /\ frameIndex - k < RingSize
  BY <1>1, <1>2, <1>3, LagAssumption, RingSizeAssumption DEF DrawnAt, Uncounted
<1> QED
  BY <1>1, <1>2, <1>4, RingSizeAssumption, NearSlotsDiffer DEF DrawnAt, Slot

\* Drawing it leaves the others as they are.
LEMMA DrawnBeside ==
  ASSUME TypeIInv, RingIInv, Lag < RingSize, call = "acquired",
         ring' \in {ring, Drawn(frames)},
         NEW i \in 1 .. Len(pending), pending[i].slot # Memory
  PROVE  ring'[pending[i].slot] = pending[i].pts
<1>1. pending[i].slot # Slot
  BY NextSlotIsFree
<1>2. ring[pending[i].slot] = pending[i].pts
  BY DEF RingIInv, RingKept
<1>3. pending[i] \in Samples
  BY DEF TypeIInv, PipelineTypeOK
<1>4. pending[i].slot \in Slots
  BY <1>3, RingSizeAssumption DEF Samples, Slots, Memory
<1> QED
  BY <1>1, <1>2, <1>4 DEF Drawn, TypeIInv, PipelineTypeOK

LEMMA RingAcquire ==
  ASSUME TypeIInv, RingIInv, AcquireFrame
  PROVE  RingIInv'
<1>1. UNCHANGED <<pending, ring, frameIndex>> /\ frames' = frames + 1
         /\ call = "none" /\ call' = "acquired"
  BY DEF AcquireFrame, encoderVars
<1>2. LagKept'
  <2>1. \A i \in 1 .. Len(pending) : frames + 1 - pending[i].pts <= Lag
    BY DEF AcquireFrame, KeepsUp
  <2>2. ASSUME NEW i \in 1 .. Len(pending)
        PROVE  frames' - pending[i].pts <= Lag
    <3>1. frames \in Nat /\ pending[i] \in Samples
      BY BoundsAssumption DEF TypeIInv, PipelineTypeOK
    <3>2. pending[i].pts \in Nat
      BY <3>1 DEF Samples
    <3>3. frames + 1 - pending[i].pts <= Lag
      BY <2>1
    <3> QED
      BY <1>1, <3>1, <3>2, <3>3, LagAssumption
  <2> QED
    BY <1>1, <2>2 DEF LagKept
<1>3. ASSUME NEW i \in 1 .. Len(pending), NEW k \in Nat, DrawnAt(i, k)
      PROVE  DrawnAt(i, k)'
  <2>1. frames \in Nat /\ frameIndex \in Nat /\ pending[i] \in Samples
    BY BoundsAssumption DEF TypeIInv, PipelineTypeOK
  <2>2. pending[i].pts \in Nat
    BY <2>1 DEF Samples
  <2> QED
    BY <1>1, <1>3, <2>1, <2>2 DEF DrawnAt, Uncounted
<1>4. RingKept'
  BY <1>1, <1>3 DEF RingIInv, RingKept
<1> QED
  BY <1>2, <1>4 DEF RingIInv

LEMMA RingNotSubmitted ==
  ASSUME TypeIInv, RingIInv, Lag < RingSize, FrameNotSubmitted
  PROVE  RingIInv'
<1>1. /\ UNCHANGED <<pending, frameIndex, frames>>
      /\ ring' \in {ring, Drawn(frames)}
      /\ call = "acquired" /\ call' = "none"
  BY DEF FrameNotSubmitted, SubmitFrameFails, Downgrade
<1>2. LagKept'
  BY <1>1 DEF LagKept
<1>3. ASSUME NEW i \in 1 .. Len(pending), NEW k \in Nat, DrawnAt(i, k)
      PROVE  DrawnAt(i, k)'
  <2>1. frames \in Nat /\ frameIndex \in Nat /\ pending[i] \in Samples
    BY BoundsAssumption DEF TypeIInv, PipelineTypeOK
  <2>2. pending[i].pts \in Nat
    BY <2>1 DEF Samples
  <2> QED
    BY <1>1, <1>3, <2>1, <2>2 DEF DrawnAt, Uncounted
<1>4. RingKept'
  BY <1>1, <1>3, DrawnBeside DEF RingIInv, RingKept
<1> QED
  BY <1>2, <1>4 DEF RingIInv

LEMMA RingSubmitted ==
  ASSUME TypeIInv, RingIInv, Lag < RingSize, FrameSubmitted
  PROVE  RingIInv'
<1>1. /\ SubmitFrame(frames) /\ UNCHANGED frames
      /\ call = "acquired" /\ call' = "submitted"
  BY DEF FrameSubmitted
<1>2. frameIndex' = frameIndex + 1 /\ ring' \in {ring, Drawn(frames)}
  BY <1>1, Submitted
<1>3. PICK slot \in {Memory, Slot} :
        \/ pending' = pending
        \/ /\ pending' = Append(pending, [pts |-> frames, slot |-> slot])
           /\ slot # Memory => ring' = Drawn(frames) /\ slot = Slot
  BY <1>1, Submitted
<1>4. frames \in Nat /\ frameIndex \in Nat /\ pending \in Seq(Samples)
  BY BoundsAssumption DEF TypeIInv, PipelineTypeOK
<1>5. LagKept'
  BY <1>1 DEF LagKept
<1>6. ASSUME NEW i \in 1 .. Len(pending), pending'[i] = pending[i],
             pending[i].slot # Memory
      PROVE  /\ ring'[pending[i].slot] = pending[i].pts
             /\ \E k \in Nat : DrawnAt(i, k)'
  <2>1. ring'[pending[i].slot] = pending[i].pts
    BY <1>1, <1>2, <1>6, DrawnBeside
  <2>2. PICK k \in Nat : DrawnAt(i, k)
    BY <1>6 DEF RingIInv, RingKept
  <2>3. pending[i].pts \in Nat
    <3>1. pending[i] \in Samples
      BY <1>4
    <3> QED
      BY <3>1 DEF Samples
  <2>4. DrawnAt(i, k)'
    BY <1>1, <1>2, <1>4, <1>6, <2>2, <2>3 DEF DrawnAt, Uncounted
  <2> QED
    BY <2>1, <2>4
<1>7. CASE pending' = pending
  BY <1>5, <1>6, <1>7 DEF RingIInv, RingKept
<1>8. CASE pending' = Append(pending, [pts |-> frames, slot |-> slot])
           /\ (slot # Memory => ring' = Drawn(frames) /\ slot = Slot)
  <2>n. PICK n \in Nat : n = Len(pending) + 1
    BY <1>4
  <2>1. /\ Len(pending') = n
        /\ \A i \in 1 .. Len(pending) : pending'[i] = pending[i]
        /\ pending'[n] = [pts |-> frames, slot |-> slot]
    BY <1>4, <1>8, <2>n
  <2>0. PICK k \in Nat : k = frameIndex
    BY <1>4
  <2>2. ASSUME slot # Memory
        PROVE  ring'[slot] = frames /\ DrawnAt(n, k)'
    <3>1. ring'[slot] = frames
      BY <1>4, <1>8, <2>2, SlotInRing DEF Drawn, TypeIInv, PipelineTypeOK
    <3> QED
      BY <1>1, <1>2, <1>4, <1>8, <2>0, <2>1, <2>2, <3>1 DEF DrawnAt, Slot, Uncounted
  <2>3. ASSUME NEW i \in 1 .. Len(pending'), pending'[i].slot # Memory
        PROVE  /\ ring'[pending'[i].slot] = pending'[i].pts
               /\ \E j \in Nat : DrawnAt(i, j)'
    <3>1. CASE i = n
      BY <1>4, <2>0, <2>1, <2>2, <2>3, <3>1
    <3>2. CASE i # n
      <4>1. i \in 1 .. Len(pending)
        BY <1>4, <2>n, <2>1, <2>3, <3>2
      <4> QED
        BY <1>6, <2>1, <2>3, <4>1
    <3> QED
      BY <3>1, <3>2
  <2> QED
    BY <1>5, <2>3 DEF RingIInv, RingKept
<1> QED
  BY <1>3, <1>5, <1>7, <1>8 DEF RingIInv

LEMMA RingEncode ==
  ASSUME TypeIInv, RingIInv, TransformEncodes
  PROVE  RingIInv'
<1>1. /\ pending # <<>> /\ pending' = Tail(pending)
      /\ UNCHANGED <<ring, frameIndex, frames, call>>
  BY DEF TransformEncodes, Encode, exportVars
<1>2. pending \in Seq(Samples)
  BY DEF TypeIInv, PipelineTypeOK
<1>3. ASSUME NEW i \in 1 .. Len(pending')
      PROVE  i + 1 \in 1 .. Len(pending) /\ pending'[i] = pending[i + 1]
  BY <1>1, <1>2
<1>4. LagKept'
  BY <1>1, <1>3 DEF RingIInv, LagKept
<1>5. RingKept'
  <2>1. ASSUME NEW i \in 1 .. Len(pending'), pending'[i].slot # Memory
        PROVE  /\ ring'[pending'[i].slot] = pending'[i].pts
               /\ \E k \in Nat : DrawnAt(i, k)'
    <3>1. PICK k \in Nat : DrawnAt(i + 1, k) /\ ring[pending[i + 1].slot] = pending[i + 1].pts
      BY <1>3, <2>1 DEF RingIInv, RingKept
    <3> QED
      BY <1>1, <1>3, <3>1 DEF DrawnAt, Uncounted
  <2> QED
    BY <2>1 DEF RingKept
<1> QED
  BY <1>4, <1>5 DEF RingIInv

LEMMA RingStep ==
  Lag < RingSize /\ TypeIInv /\ RingIInv /\ [PipelineNext]_pipelineVars => RingIInv'
<1> SUFFICES ASSUME Lag < RingSize, TypeIInv, RingIInv, [PipelineNext]_pipelineVars
             PROVE  RingIInv'
  OBVIOUS
<1>1. ASSUME UNCHANGED <<pending, ring, frameIndex, frames>>,
             Uncounted' = Uncounted, call' # "acquired" \/ call' = call
      PROVE  RingIInv'
  BY <1>1 DEF RingIInv, RingKept, LagKept, DrawnAt
<1>2. ASSUME pending' = <<>>
      PROVE  RingIInv'
  BY <1>2 DEF RingIInv, RingKept, LagKept
<1>3. CASE CaptureInit \/ CaptureInitFails \/ OutputLost
  BY <1>1, <1>3 DEF CaptureInit, CaptureInitFails, OutputLost, encoderVars, Uncounted
<1>4. CASE EncoderComesUp \/ EncoderInitFails
  BY <1>1, <1>4 DEF EncoderComesUp, EncoderInitFails, InitSucceeds, encoderVars,
     InitMFStartupFails, FindEncoderTransformFails, NegotiationFails, Uncounted
<1>5. CASE InitUnwinds
  BY <1>2, <1>5 DEF InitUnwinds, Destroy
<1>6. CASE Shutdown
  BY <1>1, <1>2, <1>6 DEF Shutdown, Destroy, encoderVars, Uncounted
<1>7. CASE FrameReturns
  BY <1>1, <1>7 DEF FrameReturns, GetSample, GetNothing, LoseSample, encoderVars,
     Uncounted
<1>8. CASE UNCHANGED pipelineVars
  BY <1>1, <1>8 DEF pipelineVars, encoderVars, exportVars, Uncounted
<1> QED
  BY <1>3, <1>4, <1>5, <1>6, <1>7, <1>8, RingAcquire, RingSubmitted,
     RingNotSubmitted, RingEncode DEF PipelineNext

\* NoWriteWhileReading, for any ring that is larger than the transform's lag:
\* refused frames turn the ring too, but each of them is a captured frame.
THEOREM NoWriteWhileReadingTheorem ==
  ASSUME Lag < RingSize
  PROVE  PipelineSpec => []NoWriteWhileReading
<1>1. PipelineInit => RingIInv
  BY DEF PipelineInit, EncoderInit, RingIInv, RingKept, LagKept
<1>2. TypeIInv /\ RingIInv /\ [PipelineNext]_pipelineVars => RingIInv'
  BY RingStep
<1>3. RingIInv => NoWriteWhileReading
  BY DEF RingIInv, RingKept, NoWriteWhileReading
<1> QED
  BY <1>1, <1>2, <1>3, PipelineTypeCorrect, PTL DEF PipelineSpec
-----------------------------------------------------------------------------
(* The refinement of FrameChannel.                                            *)

\* The frames that the encoder was offered: all but one that is still held.
Offered == IF call = "acquired" THEN frames - 1 ELSE frames

\* The frames in a queue of the transform.
PtsOf(queue) == {queue[i].pts : i \in 1 .. Len(queue)}

\* Frames go through the two queues in the order they were captured in, none
\* is behind the one that came out last, and what is encoded is its picture.
Rising(queue) ==
  \A i, j \in 1 .. Len(queue) : i < j => queue[i].pts < queue[j].pts
Between(queue) ==
  \A i \in 1 .. Len(queue) : out.pts < queue[i].pts /\ queue[i].pts <= Offered
EncodedFirst ==
  \A i \in 1 .. Len(encoded) : \A j \in 1 .. Len(pending) :
     encoded[i].pts < pending[j].pts
OwnPicture == \A i \in 1 .. Len(encoded) : encoded[i].picture = encoded[i].pts

OrderIInv ==
  /\ Rising(pending) /\ Rising(encoded)
  /\ Between(pending) /\ Between(encoded)
  /\ out.pts <= Offered
  /\ EncodedFirst
  /\ OwnPicture

\* The numbers that the order is about.
LEMMA OrderTypes ==
  ASSUME TypeIInv
  PROVE  /\ pending \in Seq(Samples) /\ encoded \in Seq(Encodings)
         /\ \A i \in 1 .. Len(pending) : pending[i].pts \in Nat
         /\ \A i \in 1 .. Len(encoded) : encoded[i].pts \in Nat
         /\ out.pts \in Nat /\ frames \in Nat /\ Offered \in Int
<1>1. pending \in Seq(Samples) /\ encoded \in Seq(Encodings)
  BY DEF TypeIInv, PipelineTypeOK
<1>2. /\ \A i \in 1 .. Len(pending) : pending[i] \in Samples
      /\ \A i \in 1 .. Len(encoded) : encoded[i] \in Encodings
  BY <1>1
<1>3. frames \in Nat /\ out.pts \in Nat
  BY BoundsAssumption DEF TypeIInv, PipelineTypeOK
<1> QED
  BY <1>1, <1>2, <1>3 DEF Samples, Encodings, Offered

LEMMA OrderInit == PipelineInit => OrderIInv
  BY DEF PipelineInit, EncoderInit, NothingOut, OrderIInv, Rising, Between,
     EncodedFirst, OwnPicture, Offered

\* The queues and the output stay, or the queues go with the encoder.
LEMMA OrderKept ==
  ASSUME TypeIInv, OrderIInv, Offered' \in Int, Offered <= Offered',
         UNCHANGED out,
         UNCHANGED <<pending, encoded>> \/ (pending' = <<>> /\ encoded' = <<>>)
  PROVE  OrderIInv'
<1> USE OrderTypes DEF OrderIInv, Rising, Between, EncodedFirst, OwnPicture
<1>1. CASE UNCHANGED <<pending, encoded>>
  BY <1>1
<1>2. CASE pending' = <<>> /\ encoded' = <<>>
  BY <1>2
<1> QED
  BY <1>1, <1>2

LEMMA OrderSubmitted ==
  ASSUME TypeIInv, OrderIInv, FrameSubmitted
  PROVE  OrderIInv'
<1>1. /\ SubmitFrame(frames) /\ UNCHANGED frames
      /\ call = "acquired" /\ call' = "submitted"
  BY DEF FrameSubmitted
<1>2. UNCHANGED <<encoded, out>>
  BY <1>1 DEF SubmitFrame
<1>3. Offered' = frames /\ Offered = frames - 1
  BY <1>1 DEF Offered
<1>4. PICK slot \in {Memory, Slot} :
        pending' \in {pending, Append(pending, [pts |-> frames, slot |-> slot])}
  BY <1>1, Submitted
<1>5. CASE pending' = pending
  BY <1>2, <1>3, <1>5, OrderTypes, OrderKept
<1>6. CASE pending' = Append(pending, [pts |-> frames, slot |-> slot])
  <2>n. PICK n \in Nat : n = Len(pending) + 1
    BY OrderTypes
  <2>1. /\ Len(pending') = n
        /\ \A i \in 1 .. Len(pending) : pending'[i] = pending[i]
        /\ pending'[n].pts = frames
    BY <1>6, <2>n, OrderTypes
  <2>2. \A i \in 1 .. Len(pending') :
          \/ i = n
          \/ i \in 1 .. Len(pending) /\ i < n
    BY <2>n, <2>1, OrderTypes
  <2>3. out.pts < frames
    BY <1>3, OrderTypes DEF OrderIInv
  <2>4. Rising(pending)'
    BY <1>3, <2>1, <2>2, OrderTypes DEF OrderIInv, Rising, Between
  <2>5. Between(pending)'
    <3>1. ASSUME NEW i \in 1 .. Len(pending')
          PROVE  out.pts < pending'[i].pts /\ pending'[i].pts <= frames
      <4>1. CASE i = n
        BY <2>1, <2>3, <4>1, OrderTypes
      <4>2. CASE i \in 1 .. Len(pending)
        BY <1>3, <2>1, <4>2, OrderTypes DEF OrderIInv, Between
      <4> QED
        BY <2>2, <4>1, <4>2
    <3> QED
      BY <1>2, <1>3, <3>1 DEF Between
  <2>6. Between(encoded)'
    BY <1>2, <1>3, OrderTypes DEF OrderIInv, Between
  <2>8. EncodedFirst'
    <3>1. ASSUME NEW i \in 1 .. Len(encoded), NEW j \in 1 .. Len(pending')
          PROVE  encoded[i].pts < pending'[j].pts
      <4>0. encoded[i].pts \in Nat /\ frames \in Nat /\ encoded[i].pts <= frames - 1
        BY <1>3, OrderTypes DEF OrderIInv, Between
      <4>1. CASE j = n
        BY <2>1, <4>0, <4>1
      <4>2. CASE j \in 1 .. Len(pending)
        BY <2>1, <4>2 DEF OrderIInv, EncodedFirst
      <4> QED
        BY <2>2, <4>1, <4>2
    <3> QED
      BY <1>2, <3>1 DEF EncodedFirst
  <2>7. Rising(encoded)' /\ OwnPicture' /\ out'.pts <= Offered'
    BY <1>2, <1>3, <2>3, OrderTypes DEF OrderIInv, Rising, OwnPicture
  <2> QED
    BY <2>4, <2>5, <2>6, <2>7, <2>8 DEF OrderIInv
<1> QED
  BY <1>4, <1>5, <1>6

\* The transform reads the oldest sample, and the texture still shows it.
LEMMA EncodesOwnPicture ==
  ASSUME TypeIInv, RingIInv, Encode
  PROVE  \E e : /\ encoded' = Append(encoded, e)
                /\ e.pts = pending[1].pts /\ e.picture = pending[1].pts
<1>1. pending # <<>> /\ Head(pending) = pending[1] /\ 1 \in 1 .. Len(pending)
  BY OrderTypes DEF Encode
<1>2. pending[1].slot # Memory => ring[pending[1].slot] = pending[1].pts
  BY <1>1 DEF RingIInv, RingKept
<1>3. PICK key, inband : 
        encoded' = Append(encoded,
          [pts |-> pending[1].pts,
           picture |-> IF pending[1].slot = Memory THEN pending[1].pts
                       ELSE ring[pending[1].slot],
           key |-> key, inband |-> inband])
  BY <1>1 DEF Encode
<1>4. encoded' = Append(encoded, [pts |-> pending[1].pts, picture |-> pending[1].pts,
                                  key |-> key, inband |-> inband])
  BY <1>2, <1>3
<1> QED
  BY <1>4

LEMMA OrderEncode ==
  ASSUME TypeIInv, RingIInv, OrderIInv, TransformEncodes
  PROVE  OrderIInv'
<1>1. /\ Encode /\ pending # <<>> /\ pending' = Tail(pending)
      /\ UNCHANGED <<frames, call, out>>
  BY DEF TransformEncodes, Encode, exportVars
<1>2. PICK e : /\ encoded' = Append(encoded, e)
               /\ e.pts = pending[1].pts /\ e.picture = pending[1].pts
  BY <1>1, EncodesOwnPicture
<1>n. PICK n \in Nat : n = Len(encoded) + 1
  BY OrderTypes
<1>3. /\ 1 \in 1 .. Len(pending)
      /\ \A i \in 1 .. Len(pending') :
           /\ i + 1 \in 1 .. Len(pending)
           /\ pending'[i] = pending[i + 1]
  BY <1>1, OrderTypes
<1>4. \A i \in 1 .. Len(encoded') :
        \/ i = n /\ encoded'[i] = e
        \/ i \in 1 .. Len(encoded) /\ i < n /\ encoded'[i] = encoded[i]
  BY <1>2, <1>n, OrderTypes
<1>5. Offered' = Offered
  BY <1>1 DEF Offered
<1>6. Rising(pending)'
  <2>1. ASSUME NEW i \in 1 .. Len(pending'), NEW j \in 1 .. Len(pending'), i < j
        PROVE  pending'[i].pts < pending'[j].pts
    <3>1. i + 1 < j + 1
      BY <1>1, <2>1, OrderTypes
    <3> QED
      BY <1>3, <3>1 DEF OrderIInv, Rising
  <2> QED
    BY <2>1 DEF Rising
<1>7. Between(pending)'
  BY <1>1, <1>3, <1>5, OrderTypes DEF OrderIInv, Between
<1>8. Rising(encoded)'
  <2>1. ASSUME NEW i \in 1 .. Len(encoded'), NEW j \in 1 .. Len(encoded'), i < j
        PROVE  encoded'[i].pts < encoded'[j].pts
    <3>1. i \in 1 .. Len(encoded) /\ encoded'[i] = encoded[i]
      BY <1>2, <1>n, <1>4, <2>1, OrderTypes
    <3>2. CASE j = n /\ encoded'[j] = e
      BY <1>2, <1>3, <3>1, <3>2 DEF OrderIInv, EncodedFirst
    <3>3. CASE j \in 1 .. Len(encoded) /\ encoded'[j] = encoded[j]
      BY <2>1, <3>1, <3>3 DEF OrderIInv, Rising
    <3> QED
      BY <1>4, <3>2, <3>3
  <2> QED
    BY <2>1 DEF Rising
<1>9. Between(encoded)' /\ OwnPicture'
  BY <1>1, <1>2, <1>3, <1>4, <1>5, OrderTypes DEF OrderIInv, Between, OwnPicture
<1>10. EncodedFirst'
  <2>1. ASSUME NEW i \in 1 .. Len(encoded'), NEW j \in 1 .. Len(pending')
        PROVE  encoded'[i].pts < pending'[j].pts
    <3>1. j + 1 \in 1 .. Len(pending) /\ pending'[j] = pending[j + 1] /\ 1 < j + 1
      BY <1>3, OrderTypes
    <3>2. pending[1].pts < pending[j + 1].pts
      BY <1>3, <3>1 DEF OrderIInv, Rising
    <3> QED
      BY <1>2, <1>4, <3>1, <3>2 DEF OrderIInv, EncodedFirst
  <2> QED
    BY <2>1 DEF EncodedFirst
<1> QED
  BY <1>1, <1>5, <1>6, <1>7, <1>8, <1>9, <1>10 DEF OrderIInv

\* The oldest encoded sample leaves, and is what comes out if anything does.
LEMMA OrderTaken ==
  ASSUME TypeIInv, OrderIInv, encoded # <<>>, encoded' = Tail(encoded),
         UNCHANGED pending, Offered' = Offered,
         out'.pts \in {out.pts, encoded[1].pts}
  PROVE  OrderIInv'
<1>1. /\ 1 \in 1 .. Len(encoded)
      /\ \A i \in 1 .. Len(encoded') :
           /\ i + 1 \in 1 .. Len(encoded) /\ 1 < i + 1
           /\ encoded'[i] = encoded[i + 1]
  BY OrderTypes
<1>2. out.pts <= out'.pts /\ out'.pts <= Offered' /\ out'.pts \in Nat
  BY <1>1, OrderTypes DEF OrderIInv, Between
<1>3. Rising(pending)' /\ Rising(encoded)' /\ OwnPicture'
  BY <1>1, OrderTypes DEF OrderIInv, Rising, OwnPicture
<1>4. Between(encoded)'
  BY <1>1, OrderTypes DEF OrderIInv, Between, Rising
<1>5. Between(pending)' /\ EncodedFirst'
  BY <1>1, OrderTypes DEF OrderIInv, Between, EncodedFirst
<1> QED
  BY <1>2, <1>3, <1>4, <1>5 DEF OrderIInv

\* GetFrame takes a sample, finds none, or loses it.
LEMMA OrderReturns ==
  ASSUME TypeIInv, OrderIInv, FrameReturns
  PROVE  OrderIInv'
<1>1. Offered' = Offered /\ UNCHANGED pending
  BY DEF FrameReturns, Offered, GetSample, GetNothing, LoseSample, encoderVars
<1>2. CASE GetSample
  <2>1. out'.pts = encoded[1].pts
    BY <1>2, OrderTypes DEF GetSample
  <2> QED
    BY <1>1, <1>2, <2>1, OrderTaken DEF GetSample
<1>3. CASE GetNothing
  BY <1>1, <1>3, OrderTypes, OrderKept DEF GetNothing, encoderVars
<1>4. CASE LoseSample
  BY <1>1, <1>4, OrderTaken DEF LoseSample
<1> QED
  BY <1>2, <1>3, <1>4 DEF FrameReturns

\* The steps that leave the queues alone, or empty both.
LEMMA QueuesStay ==
  ASSUME TypeIInv, [PipelineNext]_pipelineVars,
         ~FrameSubmitted, ~FrameReturns, ~TransformEncodes
  PROVE  /\ UNCHANGED out
         /\ \/ UNCHANGED <<pending, encoded>>
            \/ pending' = <<>> /\ encoded' = <<>>
         /\ \/ Offered' = Offered
            \/ FrameNotSubmitted /\ Offered' = Offered + 1
                 /\ UNCHANGED <<pending, encoded>>
<1> USE OrderTypes DEF Offered
<1>1. CASE CaptureInit \/ CaptureInitFails \/ OutputLost \/ UNCHANGED pipelineVars
  BY <1>1 DEF CaptureInit, CaptureInitFails, OutputLost, encoderVars, exportVars,
     pipelineVars
<1>2. CASE EncoderComesUp \/ EncoderInitFails
  BY <1>2 DEF EncoderComesUp, EncoderInitFails, InitSucceeds, encoderVars,
     InitMFStartupFails, FindEncoderTransformFails, NegotiationFails
<1>3. CASE InitUnwinds \/ Shutdown
  BY <1>3 DEF InitUnwinds, Shutdown, Destroy, encoderVars
<1>4. CASE AcquireFrame
  BY <1>4 DEF AcquireFrame, encoderVars
<1>5. CASE FrameNotSubmitted
  BY <1>5 DEF FrameNotSubmitted, SubmitFrameFails
<1> QED
  BY <1>1, <1>2, <1>3, <1>4, <1>5 DEF PipelineNext

LEMMA OrderStep ==
  TypeIInv /\ RingIInv /\ OrderIInv /\ [PipelineNext]_pipelineVars => OrderIInv'
<1> SUFFICES ASSUME TypeIInv, RingIInv, OrderIInv, [PipelineNext]_pipelineVars
             PROVE  OrderIInv'
  OBVIOUS
<1>1. CASE FrameSubmitted
  BY <1>1, OrderSubmitted
<1>2. CASE FrameReturns
  BY <1>2, OrderReturns
<1>3. CASE TransformEncodes
  BY <1>3, OrderEncode
<1>4. CASE ~FrameSubmitted /\ ~FrameReturns /\ ~TransformEncodes
  BY <1>4, QueuesStay, OrderTypes, OrderKept
<1> QED
  BY <1>1, <1>2, <1>3, <1>4
-----------------------------------------------------------------------------
\* The set of the frames in a queue, as the queue gains or loses one.
LEMMA PtsOfAppend ==
  ASSUME NEW S, NEW queue \in Seq(S), NEW e
  PROVE  PtsOf(Append(queue, e)) = PtsOf(queue) \union {e.pts}
<1>n. PICK n \in Nat : n = Len(queue) + 1
  OBVIOUS
<1>0. /\ Len(Append(queue, e)) = n /\ Append(queue, e)[n] = e
      /\ \A i \in 1 .. Len(queue) : Append(queue, e)[i] = queue[i]
      /\ \A i : i \in 1 .. n <=> i = n \/ i \in 1 .. Len(queue)
  BY <1>n
<1> QED
  BY <1>0, Zenon DEF PtsOf

LEMMA PtsOfTail ==
  ASSUME NEW S, NEW queue \in Seq(S), queue # <<>>
  PROVE  PtsOf(queue) = PtsOf(Tail(queue)) \union {queue[1].pts}
<1>1. ASSUME NEW i \in 1 .. Len(queue)
      PROVE  queue[i].pts \in PtsOf(Tail(queue)) \union {queue[1].pts}
  <2>1. CASE i = 1
    BY <2>1
  <2>2. CASE i # 1
    <3>1. i - 1 \in 1 .. Len(Tail(queue)) /\ Tail(queue)[i - 1] = queue[i]
      BY <2>2
    <3> QED
      BY <3>1 DEF PtsOf
  <2> QED
    BY <2>1, <2>2
<1>2. ASSUME NEW i \in 1 .. Len(Tail(queue))
      PROVE  Tail(queue)[i].pts \in PtsOf(queue)
  <2>1. i + 1 \in 1 .. Len(queue) /\ Tail(queue)[i] = queue[i + 1]
    OBVIOUS
  <2> QED
    BY <2>1 DEF PtsOf
<1>3. queue[1].pts \in PtsOf(queue)
  <2>1. 1 \in 1 .. Len(queue)
    OBVIOUS
  <2> QED
    BY <2>1 DEF PtsOf
<1>4. PtsOf(queue) \subseteq PtsOf(Tail(queue)) \union {queue[1].pts}
  BY <1>1 DEF PtsOf
<1>5. PtsOf(Tail(queue)) \subseteq PtsOf(queue)
  BY <1>2 DEF PtsOf
<1> QED
  BY <1>3, <1>4, <1>5

\* What of the pipeline is the channel's state, and which of its steps change it.
InFlight == PtsOf(pending) \union PtsOf(encoded)
Delivered == [pts |-> out.pts, picture |-> out.picture]

LEMMA ChannelInitLemma == PipelineInit => Channel!ChannelInit
  BY DEF PipelineInit, EncoderInit, NothingOut, Channel!ChannelInit

LEMMA OffersToChannel ==
  ASSUME TypeIInv, FrameSubmitted
  PROVE  Channel!Offer
<1>1. /\ SubmitFrame(frames) /\ UNCHANGED frames
      /\ call = "acquired" /\ call' = "submitted"
  BY DEF FrameSubmitted
<1>2. UNCHANGED <<encoded, out>>
  BY <1>1 DEF SubmitFrame
<1>3. Offered' = Offered + 1 /\ Offered' = frames
  BY <1>1, OrderTypes DEF Offered
<1>4. PICK slot \in {Memory, Slot} :
        pending' \in {pending, Append(pending, [pts |-> frames, slot |-> slot])}
  BY <1>1, Submitted
<1>5. PtsOf(pending') \in {PtsOf(pending), PtsOf(pending) \union {frames}}
  <2>1. PtsOf(Append(pending, [pts |-> frames, slot |-> slot]))
          = PtsOf(pending) \union {frames}
    BY OrderTypes, PtsOfAppend
  <2> QED
    BY <1>4, <2>1
<1>6. InFlight' \in {InFlight, InFlight \union {Offered'}}
  BY <1>2, <1>3, <1>5 DEF InFlight
<1> QED
  BY <1>2, <1>3, <1>6 DEF Channel!Offer, InFlight, PtsOf, Offered

\* A sample that comes out is the oldest in flight, and newer than the last.
LEMMA DeliversToChannel ==
  ASSUME TypeIInv, OrderIInv, GetSample, Offered' = Offered
  PROVE  Channel!Deliver
<1> DEFINE n == encoded[1].pts
<1>1. /\ encoded # <<>> /\ Head(encoded) = encoded[1] /\ 1 \in 1 .. Len(encoded)
      /\ encoded' = Tail(encoded) /\ UNCHANGED pending
  BY OrderTypes DEF GetSample
<1>2. out'.pts = n /\ out'.picture = n
  BY <1>1 DEF GetSample, OrderIInv, OwnPicture
<1>3. n \in InFlight /\ n > out.pts /\ n \in Nat
  BY <1>1, OrderTypes DEF InFlight, PtsOf, OrderIInv, Between
<1>4. PtsOf(encoded) = PtsOf(encoded') \union {n}
  BY <1>1, OrderTypes, PtsOfTail
<1>5. \A k \in PtsOf(encoded') \union PtsOf(pending) : k > n
  <2>1. \A j \in 1 .. Len(pending) : pending[j].pts > n
    BY <1>1, OrderTypes DEF OrderIInv, EncodedFirst
  <2>2. \A i \in 1 .. Len(encoded') : encoded'[i].pts > n
    BY <1>1, OrderTypes DEF OrderIInv, Rising
  <2> QED
    BY <2>1, <2>2 DEF PtsOf
<1>6. InFlight' = {k \in InFlight : k > n}
  BY <1>1, <1>3, <1>4, <1>5 DEF InFlight
<1> HIDE DEF n
<1>7. \E k \in InFlight :
        /\ k > Delivered.pts
        /\ Delivered' = [pts |-> k, picture |-> k]
        /\ InFlight' = {j \in InFlight : j > k}
  BY <1>2, <1>3, <1>6 DEF Delivered
<1> QED
  BY <1>7 DEF Channel!Deliver, InFlight, PtsOf, Offered, Delivered

\* Nothing is in flight that was not, and nothing else has changed.
LEMMA LosesFromChannel ==
  ASSUME InFlight' \subseteq InFlight, Offered' = Offered, UNCHANGED out
  PROVE  Channel!Lose
<1>1. InFlight' \in SUBSET InFlight
  OBVIOUS
<1> QED
  BY <1>1 DEF Channel!Lose, InFlight, PtsOf, Offered

LEMMA EncodeIsInvisible ==
  ASSUME TypeIInv, RingIInv, TransformEncodes
  PROVE  Channel!Lose
<1>1. /\ Encode /\ pending # <<>> /\ pending' = Tail(pending)
      /\ UNCHANGED <<frames, call, out>>
  BY DEF TransformEncodes, Encode, exportVars
<1>2. PICK e : /\ encoded' = Append(encoded, e)
               /\ e.pts = pending[1].pts /\ e.picture = pending[1].pts
  BY <1>1, EncodesOwnPicture
<1>3. PtsOf(encoded') = PtsOf(encoded) \union {pending[1].pts}
  BY <1>2, OrderTypes, PtsOfAppend
<1>4. PtsOf(pending) = PtsOf(pending') \union {pending[1].pts}
  BY <1>1, OrderTypes, PtsOfTail
<1>5. InFlight' \subseteq InFlight /\ Offered' = Offered
  BY <1>1, <1>3, <1>4 DEF InFlight, Offered
<1> QED
  BY <1>1, <1>5, LosesFromChannel

LEMMA ReturnsToChannel ==
  ASSUME TypeIInv, OrderIInv, FrameReturns
  PROVE  Channel!Deliver \/ Channel!Lose
<1>1. Offered' = Offered
  BY DEF FrameReturns, Offered
<1>2. CASE GetSample
  BY <1>1, <1>2, DeliversToChannel
<1>3. CASE GetNothing
  BY <1>1, <1>3, LosesFromChannel DEF GetNothing, encoderVars, InFlight, PtsOf
<1>4. CASE LoseSample
  <2>1. PtsOf(encoded) = PtsOf(encoded') \union {encoded[1].pts}
    BY <1>4, OrderTypes, PtsOfTail DEF LoseSample
  <2>2. InFlight' \subseteq InFlight /\ UNCHANGED out
    BY <1>4, <2>1 DEF LoseSample, InFlight
  <2> QED
    BY <1>1, <2>2, LosesFromChannel
<1> QED
  BY <1>2, <1>3, <1>4 DEF FrameReturns

\* Every step of the pipeline is a step of the channel, or is not seen there.
LEMMA ChannelStep ==
  TypeIInv /\ RingIInv /\ OrderIInv /\ [PipelineNext]_pipelineVars
    => [Channel!ChannelNext]_(Channel!channelVars)
<1> SUFFICES ASSUME TypeIInv, RingIInv, OrderIInv, [PipelineNext]_pipelineVars
             PROVE  Channel!ChannelNext
  OBVIOUS
<1>1. CASE FrameSubmitted
  BY <1>1, OffersToChannel DEF Channel!ChannelNext
<1>2. CASE FrameReturns
  BY <1>2, ReturnsToChannel DEF Channel!ChannelNext
<1>3. CASE TransformEncodes
  BY <1>3, EncodeIsInvisible DEF Channel!ChannelNext
<1>4. CASE ~FrameSubmitted /\ ~FrameReturns /\ ~TransformEncodes
  <2>1. InFlight' \subseteq InFlight /\ UNCHANGED out
    BY <1>4, QueuesStay DEF InFlight, PtsOf
  <2>2. CASE Offered' = Offered
    BY <2>1, <2>2, LosesFromChannel DEF Channel!ChannelNext
  <2>3. CASE Offered' = Offered + 1 /\ UNCHANGED <<pending, encoded>>
    <3>1. Channel!Offer
      BY <2>1, <2>3 DEF Channel!Offer, Offered
    <3> QED
      BY <3>1 DEF Channel!ChannelNext
  <2> QED
    BY <1>4, <2>2, <2>3, QueuesStay
<1> QED
  BY <1>1, <1>2, <1>3, <1>4

\* ImplementsChannel, for any ring that is larger than the transform's lag:
\* what comes out are captured frames in the order they were captured in, each
\* at most once and with the picture of its own time, whatever is dropped.
THEOREM ImplementsChannelTheorem ==
  ASSUME Lag < RingSize
  PROVE  PipelineSpec => ImplementsChannel
<1>1. PipelineInit => RingIInv
  BY DEF PipelineInit, EncoderInit, RingIInv, RingKept, LagKept
<1>2. TypeIInv /\ RingIInv /\ [PipelineNext]_pipelineVars => RingIInv'
  BY RingStep
<1> QED
  BY <1>1, <1>2, OrderInit, OrderStep, ChannelInitLemma, ChannelStep,
     PipelineTypeCorrect, PTL DEF PipelineSpec, ImplementsChannel, Channel!ChannelSpec
-----------------------------------------------------------------------------
\* KeyframeCarriesHeader: the header is copied from the transform before the
\* sample is looked at, so that one it has just begun to offer is not missed.
THEOREM KeyframeCarriesHeaderTheorem == PipelineSpec => KeyframeCarriesHeader
<1>1. TypeIInv /\ [PipelineNext]_pipelineVars
        => [out' # out /\ out'.key /\ published => out'.headers = 1]_pipelineVars
  <2> SUFFICES ASSUME TypeIInv, [PipelineNext]_pipelineVars, out' # out,
                      out'.key, published
               PROVE  out'.headers = 1
    OBVIOUS
  <2>1. GetSample
    <3>1. FrameReturns
      <4>1. FrameSubmitted => UNCHANGED out
        BY DEF FrameSubmitted, SubmitFrame
      <4>2. TransformEncodes => UNCHANGED out
        BY DEF TransformEncodes, Encode
      <4> QED
        BY <4>1, <4>2, QueuesStay
    <3> QED
      BY <3>1 DEF FrameReturns, GetNothing, LoseSample, encoderVars
  <2>2. header' = TRUE
    BY <2>1 DEF GetSample, CaptureSequenceHeader, TypeIInv, PipelineTypeOK
  <2> QED
    BY <2>1, <2>2 DEF GetSample, Headers
<1> QED
  BY <1>1, PipelineTypeCorrect, PTL DEF PipelineSpec, KeyframeCarriesHeader
=============================================================================
