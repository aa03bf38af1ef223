---------------------------- MODULE MCSourceFetch ----------------------------
EXTENDS SourceFetch

(* The threads, and a page of the kind whose caller refuses error          *)
(* envelopes and gives answers without rows a short life.                  *)
CONSTANTS t1, t2, p1

=============================================================================
