----------------------------- MODULE MCIoThread -----------------------------
(* Instances of IoThread for TLC. *)
EXTENDS IoThread

\* Without the shadow doorbell a controller does not go idle, and its
\* interrupts make no difference.
AllModes == {<<TRUE, TRUE>>, <<TRUE, FALSE>>, <<FALSE, TRUE>>}

\* A guest of Linux: shadow doorbell and interrupts.
OneMode == {<<TRUE, TRUE>>}
=============================================================================
