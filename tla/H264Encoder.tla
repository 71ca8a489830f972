----------------------------- MODULE H264Encoder -----------------------------
(* The encoder object: negotiation with a Media Foundation transform, the     *)
(* three ways a frame reaches it (a D3D11 texture of the ring, the texture    *)
(* mapped to memory, the CPU conversion), the encoded samples that come back, *)
(* and the teardown.  The transform and the GPU work by themselves: a sample  *)
(* that carries a texture is read when the transform gets to it, not when it  *)
(* is handed over.                                                            *)
EXTENDS Integers, Sequences

CONSTANTS RingSize,   \* kNv12RingSize, the NV12 textures drawn in turn
          Depth       \* bound: samples the transform holds before it refuses

ASSUME RingSizeAssumption == RingSize \in Nat \ {0}
ASSUME DepthAssumption == Depth \in Nat \ {0}

VARIABLES mfStarted,    \* m_mfStarted
          transform,    \* m_transform is set
          initialized,  \* m_initialized
          gpu,          \* m_gpuColorConversionAvailable
          aware,        \* m_mftD3D11Aware
          frameIndex,   \* m_frameIndex
          ring,         \* the picture in each texture of m_nv12GpuTextures
          header,       \* m_spsPpsCaptured
          startups,     \* MFStartup calls not yet matched by an MFShutdown
          published,    \* the transform offers its sequence header
          pending,      \* the samples the transform has still to read
          encoded,      \* the samples it has encoded
          out           \* the last sample TryGetEncodedSample returned

encoderVars == <<mfStarted, transform, initialized, gpu, aware, frameIndex,
                 ring, header, startups, published, pending, encoded, out>>

\* A frame is numbered by the order it was captured in, from 1; the number
\* stands for its time stamp and for its picture.  0: no picture yet.
NoPicture == 0
Slots == 0 .. RingSize - 1
Memory == RingSize    \* the "slot" of a sample whose pixels were copied
BlankRing == [s \in Slots |-> NoPicture]

NothingOut == [pts |-> 0, picture |-> 0, key |-> FALSE, headers |-> 0]

EncoderInit ==
  /\ mfStarted = FALSE /\ transform = FALSE /\ initialized = FALSE
  /\ gpu = FALSE /\ aware = FALSE
  /\ frameIndex = 0 /\ ring = BlankRing /\ header = FALSE
  /\ startups = 0 /\ published = FALSE
  /\ pending = <<>> /\ encoded = <<>>
  /\ out = NothingOut
-----------------------------------------------------------------------------
(* Init.  It returns at the first step that fails and undoes nothing.         *)

InitMFStartupFails ==
  UNCHANGED encoderVars

\* No transform of the codec, hardware or software, or it does not activate.
FindEncoderTransformFails ==
  /\ mfStarted' = TRUE /\ startups' = startups + 1
  /\ UNCHANGED <<transform, initialized, gpu, aware, frameIndex, ring, header,
                 published, pending, encoded, out>>

\* The transform refuses the output type or the NV12 input type.
NegotiationFails ==
  /\ mfStarted' = TRUE /\ startups' = startups + 1
  /\ transform' = TRUE
  /\ UNCHANGED <<initialized, gpu, aware, frameIndex, ring, header,
                 published, pending, encoded, out>>

\* The conversion on the GPU needs the device, the video processor and every
\* texture of the ring; zero copy needs it, and a transform that accepts the
\* device manager.
InitGpuColorConversion ==
  /\ gpu' \in BOOLEAN
  /\ aware' \in {FALSE, gpu'}

\* The sequence header is copied once, when the transform offers it.
CaptureSequenceHeader(offers) == header' = (header \/ offers)

InitSucceeds ==
  /\ mfStarted' = TRUE /\ startups' = startups + 1
  /\ transform' = TRUE
  /\ InitGpuColorConversion
  /\ published' \in BOOLEAN
  /\ CaptureSequenceHeader(published')
  /\ initialized' = TRUE
  /\ UNCHANGED <<frameIndex, ring, pending, encoded, out>>

\* Shutdown, which the destructor calls too, and the object is gone: a new one
\* starts from the defaults of its fields.
Destroy ==
  /\ startups' = IF mfStarted THEN startups - 1 ELSE startups
  /\ mfStarted' = FALSE /\ transform' = FALSE /\ initialized' = FALSE
  /\ gpu' = FALSE /\ aware' = FALSE
  /\ frameIndex' = 0 /\ ring' = BlankRing /\ header' = FALSE
  /\ published' = FALSE /\ pending' = <<>> /\ encoded' = <<>>
  /\ UNCHANGED out
-----------------------------------------------------------------------------
(* SubmitFrame                                                                *)

\* Mutation of Slot: one texture for all frames.
SlotOfAll == 0

Slot == frameIndex % RingSize
Drawn(n) == [ring EXCEPT ![Slot] = n]

\* ProcessInput: a transform that is not accepting counts as success, and the
\* frame as one more of the ring.
ProcessInput(n, slot) ==
  /\ frameIndex' = frameIndex + 1
  /\ \/ /\ Len(pending) + Len(encoded) < Depth
        /\ pending' = Append(pending, [pts |-> n, slot |-> slot])
     \/ UNCHANGED pending

SubmitNv12MemoryBuffer(n) == ProcessInput(n, Memory)

\* The texture of the ring is drawn, and given to a transform that takes
\* textures; one that does not, or a sample that fails, is mapped to memory.
SubmitFrameGpu(n) ==
  /\ gpu
  /\ ring' = Drawn(n)
  /\ \/ aware /\ ProcessInput(n, Slot)
     \/ SubmitNv12MemoryBuffer(n)
  /\ UNCHANGED gpu

\* The GPU path was never there, or fails now, before or after it has drawn:
\* it is not tried again.
Downgrade(n) ==
  /\ gpu' = FALSE
  /\ \/ UNCHANGED ring
     \/ gpu /\ ring' = Drawn(n)

SubmitFrameCpu(n) ==
  /\ Downgrade(n)
  /\ SubmitNv12MemoryBuffer(n)

SubmitFrame(n) ==
  /\ initialized
  /\ SubmitFrameGpu(n) \/ SubmitFrameCpu(n)
  /\ UNCHANGED <<mfStarted, transform, initialized, aware, header, startups,
                 published, encoded, out>>

\* The conversion on the CPU fails, or ProcessInput fails in both paths.
SubmitFrameFails(n) ==
  /\ initialized
  /\ Downgrade(n)
  /\ UNCHANGED <<mfStarted, transform, initialized, aware, frameIndex, header,
                 startups, published, pending, encoded, out>>
-----------------------------------------------------------------------------
(* TryGetEncodedSample                                                        *)

\* Mutation of Headers: what the keyframe begins with is not looked at.
HeadersOfAll(sample, have) ==
  IF ~sample.key THEN 0
  ELSE IF have THEN (IF sample.inband THEN 2 ELSE 1)
               ELSE IF sample.inband THEN 1 ELSE 0

\* The header goes in front of a keyframe that does not begin with one.
Headers(sample, have) ==
  IF sample.inband THEN 1 ELSE IF sample.key /\ have THEN 1 ELSE 0

\* Mutation of GetSample: the sample is left in the transform.
GetSampleAgain ==
  /\ initialized
  /\ encoded # <<>>
  /\ CaptureSequenceHeader(published)
  /\ out' = [pts |-> Head(encoded).pts, picture |-> Head(encoded).picture,
             key |-> Head(encoded).key,
             headers |-> Headers(Head(encoded), header')]
  /\ UNCHANGED <<mfStarted, transform, initialized, gpu, aware, frameIndex,
                 ring, startups, published, pending, encoded>>

GetSample ==
  /\ initialized
  /\ encoded # <<>>
  /\ CaptureSequenceHeader(published)
  /\ out' = [pts |-> Head(encoded).pts, picture |-> Head(encoded).picture,
             key |-> Head(encoded).key,
             headers |-> Headers(Head(encoded), header')]
  /\ encoded' = Tail(encoded)
  /\ UNCHANGED <<mfStarted, transform, initialized, gpu, aware, frameIndex,
                 ring, startups, published, pending>>

\* ProcessOutput has nothing, or fails.
GetNothing ==
  /\ initialized
  /\ UNCHANGED encoderVars

\* The sample was taken from the transform and is lost: its buffer cannot be
\* locked, it is empty, or the caller has no memory for it.
LoseSample ==
  /\ initialized
  /\ encoded # <<>>
  /\ encoded' = Tail(encoded)
  /\ header' \in {header, header \/ published}
  /\ UNCHANGED <<mfStarted, transform, initialized, gpu, aware, frameIndex,
                 ring, startups, published, pending, out>>
-----------------------------------------------------------------------------
(* The transform.  It encodes in order, marks some frames as clean points and *)
(* may put the sequence header in front of them itself; some transforms offer *)
(* the header only once they have encoded a frame.                            *)

Encode ==
  /\ pending # <<>>
  /\ LET s == Head(pending)
         picture == IF s.slot = Memory THEN s.pts ELSE ring[s.slot]
     IN \E key \in BOOLEAN : \E inband \in {FALSE, key} :
          encoded' = Append(encoded, [pts |-> s.pts, picture |-> picture,
                                      key |-> key, inband |-> inband])
  /\ pending' = Tail(pending)
  /\ published' \in {published, TRUE}
  /\ UNCHANGED <<mfStarted, transform, initialized, gpu, aware, frameIndex,
                 ring, header, startups, out>>
=============================================================================
