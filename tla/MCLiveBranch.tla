---------------------------- MODULE MCLiveBranch ----------------------------
(* Requests of one field each, and one that changes three at once.           *)
EXTENDS LiveBranch

CONSTANTS hd, sd, vga

NoUpdate == [fps |-> None, resolution |-> None, bitrate |-> None,
             overlay |-> None, ntp |-> None, mode |-> None]

MCUpdates ==
    {[NoUpdate EXCEPT !.fps = n] : n \in {0, 5, 60}}
    \cup {[NoUpdate EXCEPT !.resolution = s] : s \in {hd, sd}}
    \cup {[NoUpdate EXCEPT !.bitrate = n] : n \in {10, 20000}}
    \cup {[NoUpdate EXCEPT !.overlay = FALSE], [NoUpdate EXCEPT !.ntp = FALSE],
           [NoUpdate EXCEPT !.mode = "cbr"],
           [NoUpdate EXCEPT !.fps = 10, !.resolution = sd, !.bitrate = 6500]}

NoFields == [resolution |-> None, fps |-> None, codec |-> None,
             bitrate |-> None, overlay |-> None, ntp |-> None]

MCLensRequests ==
    {NoFields, [NoFields EXCEPT !.codec = "mjpeg"], [NoFields EXCEPT !.ntp = TRUE],
     [NoFields EXCEPT !.resolution = sd, !.fps = 60],
     [NoFields EXCEPT !.codec = "h264", !.bitrate = 0, !.overlay = FALSE]}

=============================================================================
