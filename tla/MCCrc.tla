------------------------------- MODULE MCCrc -------------------------------
(***************************************************************************)
(* Blocks and damage for the run of Crc.                                   *)
(***************************************************************************)
EXTENDS Crc

(* One byte reaches each entry of the table; some longer blocks, and one    *)
(* without samples.                                                         *)
MCPayloads == {<<b>> : b \in 0..255} \cup {<< >>, <<0, 0, 0, 0>>, <<255, 128, 1>>}

(* In blocks of up to 8 bytes: nothing, any one bit, two bits, and bursts of *)
(* up to 32 bits of which all are flipped; the first of several is in the    *)
(* first byte, as the checksum treats all bytes alike.                       *)
MCNoise == {{}} \cup {{i} : i \in 0..63}
                \cup {{i, j} : i \in 0..7, j \in 0..63}
                \cup {i .. i + n : i \in 0..7, n \in 0..31}
=============================================================================
