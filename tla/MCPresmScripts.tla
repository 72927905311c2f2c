--------------------------- MODULE MCPresmScripts ---------------------------
(***************************************************************************)
(* Small instances of PresmScripts: three users, as many numbered          *)
(* directories as three scripts can make, and outputs that agree, are too  *)
(* short, too long, different or missing.                                  *)
(***************************************************************************)
EXTENDS PresmScripts

MCRunNames == <<"00000", "00001", "00002", "00003", "00004", "00005", "00006", "00007", "00008">>
MCOutputs  == {<<>>, <<"5">>, <<"5", "6">>, <<"4">>}

MCUsers ==
    \* Two configurations, one after the other, in builds that may break off.
    {[scripts |-> {"build", "verify", "execute"},
      configs |-> {"functional.json", "edited.json"},
      clones  |-> {"recursive"}, calls |-> 3, mishaps |-> 1],
    \* The tools and the FPGA, from every kind of clone.
     [scripts |-> {"toolchain", "fpga_load"},
      configs |-> {"serial_fpga_tangnano20k.json", "serial_tapeout_tt_ihp26b.json"},
      clones  |-> {"recursive", "plain", "emptied"}, calls |-> 3, mishaps |-> 1],
    \* The test benches of every configuration, and the export.
     [scripts |-> {"rtl_testbench_run", "tt_ihp_export"},
      configs |-> {"functional.json", "serial_tapeout_tt_ihp26b.json", "default.json",
                   "edited.json"},
      clones  |-> {"plain"}, calls |-> 2, mishaps |-> 1]}
=============================================================================
