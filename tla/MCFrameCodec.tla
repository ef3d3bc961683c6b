---------------------------- MODULE MCFrameCodec ----------------------------
(* Instances of FrameCodec for TLC: see the .cfg files.                    *)
EXTENDS FrameCodec
=============================================================================
