--------------------------- MODULE CapturePipeline ---------------------------
(* The exports the host calls: one desktop duplication and one encoder, both  *)
(* process globals.  CaptureInit builds them in turn and unwinds what it      *)
(* built when a step fails; CaptureGetFrame holds a desktop frame while it is *)
(* submitted and then takes at most one encoded sample.  The managed caller   *)
(* makes one call at a time; the transform and the desktop run meanwhile.     *)
EXTENDS H264Encoder

CONSTANTS MaxFrames,   \* bound: frames captured
          MaxInits,    \* bound: calls of CaptureInit
          Lag          \* how many frames the transform may fall behind

ASSUME LagAssumption == Lag \in Nat
ASSUME BoundsAssumption == MaxFrames \in Nat /\ MaxInits \in Nat

VARIABLES hasCapture,    \* g_capture is set
          hasEncoder,    \* g_encoder is set
          ready,         \* g_pipelineInitialized
          capturing,     \* DesktopDuplicationCapture::m_initialized
          duplication,   \* m_duplication, and whether its output is still there
          held,          \* m_frameHeld
          call,          \* where the call in progress is
          frames,        \* frames acquired so far: the clock of the time stamps
          inits          \* calls of CaptureInit so far

exportVars == <<hasCapture, hasEncoder, ready, capturing, duplication, held,
                call, frames, inits>>
pipelineVars == <<encoderVars, exportVars>>

PipelineInit ==
  /\ EncoderInit
  /\ hasCapture = FALSE /\ hasEncoder = FALSE /\ ready = FALSE
  /\ capturing = FALSE /\ duplication = "none" /\ held = FALSE
  /\ call = "none" /\ frames = 0 /\ inits = 0
-----------------------------------------------------------------------------
(* DisplayBridge_CaptureInitWithCodecFpsBitrate                               *)

\* The duplication comes up, on the virtual display or on the primary one.
CaptureInit ==
  /\ call = "none" /\ ~ready
  /\ inits < MaxInits /\ inits' = inits + 1
  /\ hasCapture' = TRUE
  /\ capturing' = TRUE /\ duplication' = "live"
  /\ call' = "captureUp"
  /\ UNCHANGED <<encoderVars, hasEncoder, ready, held, frames>>

\* Any step of it fails: what it had made goes with the object.
CaptureInitFails ==
  /\ call = "none" /\ ~ready
  /\ inits < MaxInits /\ inits' = inits + 1
  /\ UNCHANGED <<encoderVars, hasCapture, hasEncoder, ready, capturing,
                 duplication, held, call, frames>>

EncoderComesUp ==
  /\ call = "captureUp"
  /\ InitSucceeds
  /\ hasEncoder' = TRUE
  /\ ready' = TRUE
  /\ call' = "none"
  /\ UNCHANGED <<hasCapture, capturing, duplication, held, frames, inits>>

EncoderInitFails ==
  /\ call = "captureUp"
  /\ InitMFStartupFails \/ FindEncoderTransformFails \/ NegotiationFails
  /\ hasEncoder' = TRUE
  /\ call' = "encoderFailed"
  /\ UNCHANGED <<hasCapture, ready, capturing, duplication, held, frames, inits>>

CaptureShutdown ==    \* DesktopDuplicationCapture::Shutdown
  /\ held' = IF duplication # "none" THEN FALSE ELSE held
  /\ duplication' = "none"
  /\ capturing' = FALSE

\* The encoder goes first, then the capture.
InitUnwinds ==
  /\ call = "encoderFailed"
  /\ Destroy
  /\ hasEncoder' = FALSE
  /\ CaptureShutdown
  /\ hasCapture' = FALSE
  /\ call' = "none"
  /\ UNCHANGED <<ready, frames, inits>>
-----------------------------------------------------------------------------
(* DisplayBridge_CaptureGetFrame                                              *)

\* The next frame of the desktop; Lag bounds how far the transform is behind.
KeepsUp == \A i \in 1 .. Len(pending) : frames + 1 - pending[i].pts <= Lag

AcquireFrame ==
  /\ call = "none" /\ ready /\ hasCapture /\ hasEncoder
  /\ capturing /\ duplication = "live"
  /\ frames < MaxFrames /\ frames' = frames + 1
  /\ KeepsUp
  /\ held' = TRUE
  /\ call' = "acquired"
  /\ UNCHANGED <<encoderVars, hasCapture, hasEncoder, ready, capturing,
                 duplication, inits>>

\* Mutation of ReleaseFrame: the frame is kept.
KeepFrame == held' = held

ReleaseFrame == held' = IF duplication # "none" THEN FALSE ELSE held

\* The frame is given back whether or not the encoder took it.
FrameSubmitted ==
  /\ call = "acquired"
  /\ SubmitFrame(frames)
  /\ ReleaseFrame
  /\ call' = "submitted"
  /\ UNCHANGED <<hasCapture, hasEncoder, ready, capturing, duplication,
                 frames, inits>>

FrameNotSubmitted ==
  /\ call = "acquired"
  /\ SubmitFrameFails(frames)
  /\ ReleaseFrame
  /\ call' = "none"
  /\ UNCHANGED <<hasCapture, hasEncoder, ready, capturing, duplication,
                 frames, inits>>

FrameReturns ==
  /\ call = "submitted"
  /\ GetSample \/ GetNothing \/ LoseSample
  /\ call' = "none"
  /\ UNCHANGED <<hasCapture, hasEncoder, ready, capturing, duplication, held,
                 frames, inits>>

\* The output goes away: every later AcquireNextFrame fails, and nothing here
\* builds the duplication again.
OutputLost ==
  /\ duplication = "live"
  /\ duplication' = "lost"
  /\ UNCHANGED <<encoderVars, hasCapture, hasEncoder, ready, capturing, held,
                 call, frames, inits>>

Shutdown ==    \* DisplayBridge_CaptureShutdown
  /\ call = "none" /\ hasCapture
  /\ IF hasEncoder THEN Destroy ELSE UNCHANGED encoderVars
  /\ hasEncoder' = FALSE
  /\ CaptureShutdown
  /\ hasCapture' = FALSE
  /\ ready' = FALSE
  /\ UNCHANGED <<call, frames, inits>>

TransformEncodes ==
  /\ Encode
  /\ UNCHANGED exportVars

PipelineNext ==
  \/ CaptureInit \/ CaptureInitFails \/ EncoderComesUp \/ EncoderInitFails
  \/ InitUnwinds
  \/ AcquireFrame \/ FrameSubmitted \/ FrameNotSubmitted \/ FrameReturns
  \/ Shutdown
  \/ OutputLost \/ TransformEncodes

PipelineSpec == PipelineInit /\ [][PipelineNext]_pipelineVars
-----------------------------------------------------------------------------
Samples == [pts : 1 .. MaxFrames, slot : 0 .. RingSize]
Encodings == [pts : 1 .. MaxFrames, picture : 0 .. MaxFrames,
              key : BOOLEAN, inband : BOOLEAN]

\* The type invariant.
PipelineTypeOK ==
  /\ mfStarted \in BOOLEAN /\ transform \in BOOLEAN /\ initialized \in BOOLEAN
  /\ gpu \in BOOLEAN /\ aware \in BOOLEAN
  /\ header \in BOOLEAN /\ published \in BOOLEAN
  /\ hasCapture \in BOOLEAN /\ hasEncoder \in BOOLEAN /\ ready \in BOOLEAN
  /\ capturing \in BOOLEAN /\ held \in BOOLEAN
  /\ frameIndex \in 0 .. MaxFrames
  /\ ring \in [Slots -> 0 .. MaxFrames]
  /\ startups \in 0 .. 1
  /\ pending \in Seq(Samples)
  /\ encoded \in Seq(Encodings)
  /\ out \in [pts : 0 .. MaxFrames, picture : 0 .. MaxFrames,
              key : BOOLEAN, headers : 0 .. 1]
  /\ duplication \in {"none", "live", "lost"}
  /\ call \in {"none", "captureUp", "encoderFailed", "acquired", "submitted"}
  /\ frames \in 0 .. MaxFrames
  /\ inits \in 0 .. MaxInits

\* VideoProcessorBlt never draws over a texture that the transform has still
\* to read: the ring comes round again only after the transform is done with
\* the frame that was in it, although refused frames turn the ring as well.
NoWriteWhileReading ==
  \A i \in 1 .. Len(pending) :
     pending[i].slot # Memory => ring[pending[i].slot] = pending[i].pts

\* A keyframe goes out with exactly one sequence header once the transform has
\* offered it: a decoder that joins there can start, and never finds two.
KeyframeCarriesHeader ==
  [][out' # out /\ out'.key /\ published => out'.headers = 1]_pipelineVars

\* Between two calls nothing of a failed CaptureInit or of a frame is left:
\* Media Foundation is started as often as there are encoders, the globals are
\* both there or both gone, and no desktop frame is held.
NothingLeftBehind ==
  call = "none" =>
    /\ startups = IF ready THEN 1 ELSE 0
    /\ hasCapture <=> ready
    /\ hasEncoder <=> ready
    /\ duplication # "none" <=> ready
    /\ initialized <=> ready
    /\ ~held

\* The pipeline implements the lossy channel that keeps order.
Channel == INSTANCE FrameChannel WITH
  offered   <- IF call = "acquired" THEN frames - 1 ELSE frames,
  inFlight  <- {pending[i].pts : i \in 1 .. Len(pending)}
                 \union {encoded[i].pts : i \in 1 .. Len(encoded)},
  delivered <- [pts |-> out.pts, picture |-> out.picture]

ImplementsChannel == Channel!ChannelSpec
=============================================================================
