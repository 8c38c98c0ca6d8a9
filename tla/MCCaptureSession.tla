--------------------------- MODULE MCCaptureSession ---------------------------
EXTENDS CaptureSession

CONSTANTS Mic, Screen

MCEvents == {<<Mic, 0>>, <<Mic, 1>>, <<Mic, 2>>, <<Screen, 0>>}
=============================================================================
