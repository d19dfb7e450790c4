---------------------------- MODULE MCEditPlayer ----------------------------
(* Model-checking instances of EditPlayer; the .cfg files choose a clip.     *)
EXTENDS EditPlayer

Pkt(s, t) == [s |-> s, t |-> t]

\* Both pictures lie before the audio: the video queue passes its soft limit,
\* and the second block meets a full ring.
VideoFirst == <<Pkt("v", 0), Pkt("v", 1), Pkt("a", 0), Pkt("a", 1)>>
=============================================================================
