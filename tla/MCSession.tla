------------------------------ MODULE MCSession ------------------------------
(***************************************************************************)
(* Model values and messages for the runs of Session.                      *)
(***************************************************************************)
EXTENDS Session

Msg(type, has, id, data) ==
    [type |-> type, fits |-> TRUE, tiles |-> TRUE, has |-> has, id |-> id, data |-> data]

\* The two ways in which a message is rejected before it is looked at.
MCRejected == { [Msg("CHANNEL_TEST", {}, 0, "none") EXCEPT !.fits = FALSE],
                [Msg("CHANNEL_TEST", {}, 0, "none") EXCEPT !.tiles = FALSE] }

MCControl == { Msg("CHANNEL_SETUP", {"CHANNEL_ID"}, 1, "none"),
               Msg("CHANNEL_SETUP", {"CHANNEL_ID"}, 2, "none"),
               Msg("CHANNEL_SETUP", {}, 0, "none"),
               Msg("CHANNEL_TEST", {"CHANNEL_ID"}, 2, "none"),
               Msg("CHANNEL_STATUS", {"CHANNEL_ID"}, 1, "none"),
               Msg("CHANNEL_CLOSE", {"CHANNEL_ID"}, 1, "none"),
               Msg("OTHER", {}, 0, "none") }

\* A request as interface::pcm_data_send_request builds it, and partial ones.
MCPcmNamed == { Msg("PCM_DATA_SEND_REQUEST", has, 2, "samples") :
                    has \in {ScalarParameters, {"CHANNEL_ID"}, {"BLOCK_ID"}, {"CRC"}} }
MCPcmBare == { Msg("PCM_DATA_SEND_REQUEST", {}, 0, data) : data \in BlockData }

MCAllMessages == MCRejected \cup MCControl \cup MCPcmNamed \cup MCPcmBare

MCWellFormed == { Msg("CHANNEL_SETUP", {"CHANNEL_ID"}, 1, "none"),
                  Msg("PCM_DATA_SEND_REQUEST", ScalarParameters, 1, "samples") }

Nothing == [has |-> {}, id |-> 0, data |-> "none"]
MCNoLeftover == { Nothing }
MCLeftovers == { Nothing,
                 [Nothing EXCEPT !.has = {"CHANNEL_ID"}, !.id = 2],
                 [Nothing EXCEPT !.has = {"BLOCK_ID"}],
                 [Nothing EXCEPT !.data = "samples"],
                 [Nothing EXCEPT !.data = "too_long"] }
=============================================================================
