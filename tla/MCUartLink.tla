----------------------------- MODULE MCUartLink -----------------------------
(***************************************************************************)
(* A small instance of UartLink: thirteen clocks a bit, and bytes with long    *)
(* runs, with an edge at every bit, and without symmetry.                  *)
(***************************************************************************)
EXTENDS UartLink

MCBytes == {<<0, 0, 0, 0, 0, 0, 0, 0>>, <<1, 1, 1, 1, 1, 1, 1, 1>>,
            <<0, 1, 0, 1, 0, 1, 0, 1>>, <<1, 0, 1, 1, 0, 0, 0, 1>>}
=============================================================================
