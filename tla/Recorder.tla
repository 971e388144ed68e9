------------------------------ MODULE Recorder ------------------------------
(***************************************************************************)
(* rtsp_ipwebcam_recorder.cpp: video packets of a camera are written one   *)
(* after the other to an Annex-B file, through a bitstream filter, or to   *)
(* one JPEG file each.  A packet is its number among the video packets,    *)
(* from 1; 0 stands for one of another stream.  The option that limits the *)
(* wait for the camera (rw_timeout, stimeout) is taken to do so.           *)
(***************************************************************************)
EXTENDS Integers, Sequences, FiniteSets

CONSTANTS
    Limits,     \* what max_packets may be: up to 0 for no limit
    OldFrames,  \* frame indexes of JPEG files that earlier recordings left
    MaxVideo,   \* video packets that the camera sends: bounds the run
    MaxHeld     \* packets that the filter keeps back at most

VARIABLES
    pc,
    max_packets,
    codec,          \* of the first video stream
    g_running,
    packet,         \* the packet just read
    held,           \* packets inside the bitstream filter
    raw_out,        \* contents of the output file
    jpegs,          \* the JPEG files: packet by frame index
    lost,           \* packets of which fwrite wrote nothing
    cut,            \* packets that are in their file only in part
    video_packets,
    saved           \* printed as "Saved video packets", or -1

recorderVars == <<max_packets, codec, g_running, packet, held, raw_out, jpegs, lost, cut,
                  video_packets, saved>>

vars == <<pc, recorderVars>>

(* What an earlier recording has written. *)
Older == -1

Init ==
    /\ pc = "start"
    /\ max_packets = 0
    /\ codec = "none"
    /\ g_running = TRUE
    /\ packet = 0
    /\ held = <<>>
    /\ raw_out = <<Older>>
    /\ jpegs = [f \in OldFrames |-> Older]
    /\ lost = {}
    /\ cut = {}
    /\ video_packets = 0
    /\ saved = -1

(* An exception: main prints it and returns 1. *)
Throws(place) ==
    /\ pc = place
    /\ pc' = "ended"
    /\ UNCHANGED recorderVars

(* argv, avformat_open_input, avformat_find_stream_info, find_video_stream *)
open_input(limit, c) ==
    /\ pc = "start"
    /\ max_packets' = limit
    /\ codec' = c
    /\ pc' = IF c = "other" THEN "ended" ELSE "output"
    /\ UNCHANGED <<g_running, packet, held, raw_out, jpegs, lost, cut, video_packets, saved>>

(* create_directories, or the filter and fopen with "wb". *)
open_output ==
    /\ pc = "output"
    /\ raw_out' = IF codec = "mjpeg" THEN raw_out ELSE <<>>
    /\ pc' = "loop"
    /\ UNCHANGED <<max_packets, codec, g_running, packet, held, jpegs, lost, cut, video_packets, saved>>

GoesOn == g_running /\ (max_packets <= 0 \/ video_packets < max_packets)

CheckRunning ==
    /\ pc = "loop"
    /\ pc' = IF GoesOn THEN "read" ELSE "close"
    /\ UNCHANGED recorderVars

(* Mutant: packets of every stream are saved. *)
AnyStream(p) == TRUE

(* packet->stream_index == video_index *)
IsVideo(p) == p # 0

av_read_frame(p) ==
    /\ pc = "read"
    /\ p # 0 => video_packets < MaxVideo
    /\ packet' = p
    /\ pc' = IF IsVideo(p) THEN "write" ELSE "loop"
    /\ UNCHANGED <<max_packets, codec, g_running, held, raw_out, jpegs, lost, cut, video_packets, saved>>

(* The input ends, fails or times out. *)
read_stops ==
    /\ pc = "read"
    /\ pc' = "close"
    /\ UNCHANGED recorderVars

av_bsf_send_packet ==
    /\ pc = "write"
    /\ codec = "h26x"
    /\ held' = Append(held, packet)
    /\ pc' = "drain"
    /\ UNCHANGED <<max_packets, codec, g_running, packet, raw_out, jpegs, lost, cut, video_packets, saved>>

(* av_bsf_receive_packet and fwrite, whose result is not looked at. *)
receive_and_fwrite(written) ==
    /\ pc = "drain"
    /\ held # <<>>
    /\ held' = Tail(held)
    /\ raw_out' = IF written = "nothing" THEN raw_out ELSE Append(raw_out, Head(held))
    /\ lost' = IF written = "nothing" THEN lost \cup {Head(held)} ELSE lost
    /\ cut' = IF written = "part" THEN cut \cup {Head(held)} ELSE cut
    /\ UNCHANGED <<pc, max_packets, codec, g_running, packet, jpegs, video_packets, saved>>

(* EAGAIN *)
drained ==
    /\ pc = "drain"
    /\ Len(held) <= MaxHeld
    /\ video_packets' = video_packets + 1
    /\ pc' = "loop"
    /\ UNCHANGED <<max_packets, codec, g_running, packet, held, raw_out, jpegs, lost, cut, saved>>

(* The file with the packet's number is opened anew, over an older one.    *)
JpegWritten(written) ==
    /\ pc = "write"
    /\ codec = "mjpeg"
    /\ jpegs' = [f \in DOMAIN jpegs \cup {video_packets} |->
                    IF f = video_packets THEN packet ELSE jpegs[f]]
    /\ cut' = IF written = "part" THEN cut \cup {packet} ELSE cut
    /\ UNCHANGED <<max_packets, codec, g_running, packet, held, raw_out, lost, saved>>

(* What the stream has buffered is flushed by its destructor, which tells  *)
(* nobody that it could not.                                               *)
write_jpeg_packet(written) ==
    /\ JpegWritten(written)
    /\ video_packets' = video_packets + 1
    /\ pc' = "loop"

(* "write jpeg output failed", which leaves the file as far as it got. *)
jpeg_write_throws ==
    /\ JpegWritten("part")
    /\ UNCHANGED video_packets
    /\ pc' = "ended"

close_and_print ==
    /\ pc = "close"
    /\ saved' = video_packets
    /\ pc' = "ended"
    /\ UNCHANGED <<max_packets, codec, g_running, packet, held, raw_out, jpegs, lost, cut, video_packets>>

signal_handler ==
    /\ pc # "ended"
    /\ g_running
    /\ g_running' = FALSE
    /\ UNCHANGED <<pc, max_packets, codec, packet, held, raw_out, jpegs, lost, cut, video_packets, saved>>

OwnStep ==
    \/ \E limit \in Limits, c \in {"other", "mjpeg", "h26x"} : open_input(limit, c)
    \/ open_output
    \/ CheckRunning
    \/ read_stops
    \/ av_bsf_send_packet
    \/ \E written \in {"whole", "part", "nothing"} : receive_and_fwrite(written)
    \/ drained
    \/ \E written \in {"whole", "part"} : write_jpeg_packet(written)
    \/ jpeg_write_throws
    \/ close_and_print
    \/ \E place \in {"start", "output", "write", "drain"} : Throws(place)

CameraSends == \E p \in {0, video_packets + 1} : av_read_frame(p)

Next == OwnStep \/ CameraSends \/ signal_handler

(* Every video packet counted is in the output once, in the order of       *)
(* arrival and perhaps cut short, or still in the filter, or was lost by   *)
(* fwrite; nothing of another stream is there.  Of an older recording the  *)
(* raw file keeps nothing, and the directory just the JPEG files with      *)
(* higher numbers than the new ones, which main neither removes nor tells  *)
(* apart (the loop of main, write_filtered_packet, write_jpeg_packet).     *)
FileIsInOrder ==
    LET file == raw_out \o held
    IN  pc \in {"loop", "read", "close"} \/ saved # -1 =>
            IF codec = "mjpeg"
                THEN /\ DOMAIN jpegs = OldFrames \cup 0..(video_packets - 1)
                     /\ \A f \in DOMAIN jpegs :
                            jpegs[f] = IF f < video_packets THEN f + 1 ELSE Older
                ELSE /\ {file[j] : j \in DOMAIN file} = (1..video_packets) \ lost
                     /\ \A j, k \in DOMAIN file : j < k => file[j] < file[k]

(* "Saved video packets: N" means that N packets are in the file.          *)
SavedIsInFile ==
    saved # -1 /\ codec = "h26x" => Cardinality({j \in DOMAIN raw_out : raw_out[j] \notin cut}) = saved
=============================================================================
