---------------------------- MODULE AvEpochAlign ----------------------------
(***************************************************************************)
(* The pure placement arithmetic of libs/engine/src/av_epoch_align.h: how  *)
(* an audio track is put on the video timeline and how a session PTS is    *)
(* put on the timeline of one segment.  PTS and shifts are in nanoseconds, *)
(* epochs in 100 ns ticks, as in the source.                               *)
(***************************************************************************)
EXTENDS Integers

TickNs == 100

\* A measured epoch further than max_abs_ns (kMaxAudioEpochShiftNs) from the
\* picture is a bad clock; 0 means the track measured none.
IsPlausibleAudioEpoch(audio_epoch, video_epoch, max_abs_ns) ==
  LET shift == (audio_epoch - video_epoch) * TickNs
  IN  /\ audio_epoch # 0
      /\ shift <= max_abs_ns
      /\ shift >= -max_abs_ns

AudioTimelineShiftNs(audio_epoch, video_epoch, max_abs_ns) ==
  LET shift == (audio_epoch - video_epoch) * TickNs
  IN  CASE shift > max_abs_ns  -> max_abs_ns
        [] shift < -max_abs_ns -> -max_abs_ns
        [] OTHER               -> shift

\* Mutant: the shift is applied without the check for a negative result.
PredatesVideoNever(pts_ns, shift_ns) == FALSE

\* ShiftAudioPts returns false exactly when the sample predates video frame 0.
PredatesVideo(pts_ns, shift_ns) == pts_ns + shift_ns < 0

\* PlaceOnSegmentTimeline's verdict; the local PTS is pts - epoch when "Write".
PlaceOnSegmentTimeline(pts_ns, epoch_set, epoch_session_pts_ns) ==
  CASE ~epoch_set                    -> "Defer"
    [] epoch_set /\ pts_ns < epoch_session_pts_ns -> "Trim"
    [] OTHER                         -> "Write"
=============================================================================
