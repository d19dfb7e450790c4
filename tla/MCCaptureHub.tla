---------------------------- MODULE MCCaptureHub ----------------------------
\* CaptureHub and the arbiter it implements, on a small instance.
EXTENDS CaptureHub

=============================================================================
