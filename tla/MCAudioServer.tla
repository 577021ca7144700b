---------------------------- MODULE MCAudioServer ----------------------------
(***************************************************************************)
(* Model values and messages for the runs of AudioServer.                  *)
(***************************************************************************)
EXTENDS AudioServer

Msg(type, data) ==
    [type |-> type, fits |-> TRUE, tiles |-> TRUE, has |-> {}, id |-> 0, data |-> data]

(* A request without a block, so that what stands behind it decides what    *)
(* its handler finds: nothing, the block of an earlier request (handled as  *)
(* one of its own would be), or an id that ends the session.                *)
MCBlocks == { Msg("PCM_DATA_SEND_REQUEST", "none") }
Nothing == [has |-> {}, id |-> 0, data |-> "none"]
MCLeftovers == { Nothing, [Nothing EXCEPT !.data = "samples"],
                 [Nothing EXCEPT !.has = {"CHANNEL_ID"}] }

\* Blocks of half a frame: a frame mixes the samples of two blocks.
MCBlockSizes == {1}
=============================================================================
