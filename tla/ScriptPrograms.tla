--------------------------- MODULE ScriptPrograms ---------------------------
(***************************************************************************)
(* The scripts of scripts/, as sequences of the statements of ScriptShell, *)
(* with the configurations of hw_configs/ they are given and the files of  *)
(* the repository they look for.                                           *)
(***************************************************************************)
EXTENDS ScriptShell

\* Keys some script looks up and the configuration does not have, and its lists.
Config(c) ==
    LET Apps(one, two) ==
            <<[name |-> "sanity", enabled |-> TRUE, verify |-> one],
              [name |-> "addition", enabled |-> two, verify |-> TRUE]>>
        Bench(name, top) == [rtl_src |-> name \o ".v", testbench_src |-> name \o ".py",
                             rtl_top_level |-> top, enable |-> TRUE]
        preinception ==
            <<Bench("uart_packet", "UARTPacket"), Bench("command_processor", "CommandProcessor")>>
        Fields(device, type, missing, apps, benches) ==
            [device |-> device, type |-> type, missing |-> missing,
             verification |-> apps, rtl_testbench |-> benches]
        no_rtl == {"fpga", "rtl", "rtl_testbench", "rtl_testbench_config"}
    IN  CASE c = "functional.json" ->
              Fields("preinception", "functional", no_rtl, Apps(TRUE, TRUE), <<>>)
          [] c = "serial_fpga_tangnano20k.json" ->
              Fields("preinception", "serial", {}, Apps(TRUE, TRUE),
                     <<Bench("tangnano20k_serial", "Tangnano20kUart")>> \o preinception)
          [] c = "serial_tapeout_tt_ihp26b.json" ->
              Fields("preinception", "serial", {"fpga"}, Apps(TRUE, TRUE),
                     <<Bench("tt_ihp26b", "tt_um_preinception_top")>> \o preinception)
          [] c = "default.json" ->
              Fields("", "", {"memory_size_in_bytes", "device_clk_hz", "log_enabled", "debug",
                              "verification", "fpga", "rtl"}, <<>>,
                     <<Bench("uart_rx", "UARTRx"), Bench("uart_tx", "UARTTx")>>)
          [] c = "edited.json" ->   \* a user's, with an application and a bench switched off
              Fields("preinception", "serial", {}, Apps(FALSE, FALSE),
                     <<[preinception[1] EXCEPT !.enable = FALSE], preinception[2]>>)

Has(c, keys) == require(keys \cap Config(c).missing = {})

config_file(c) == <<"hw_configs", c>>

\* The benches of a device in one of the configurations.
DeviceBenches(configs) ==
    UNION {Range(Config(c).rtl_testbench) : c \in {d \in configs : Config(d).device # ""}}

\* The files of the repository, with the RTL and the tests of those benches, a
\* program of the user's and a Tiny Tapeout project to export to; and what the
\* submodules are in a clone.
Tools == {"yosys", "nextpnr", "openFPGALoader"}
Repository(configs) ==
    {config_file(c) : c \in configs} \cup
    {<<"CMakeLists.txt">>, <<"scripts", "build.py">>, <<"app", "program">>,
     <<"tapeout", "test", "tb.v">>, <<"fpga", "tangnano20k", "Makefile">>,
     <<"device", "rtl", "uart_rx.v">>, <<"device", "rtl", "uart_tx.v">>,
     <<"rtl_testbench", "Makefile">>,
     <<"rtl_testbench", "uart_rx.py">>, <<"rtl_testbench", "uart_tx.py">>} \cup
    {<<"device", "preinception", "rtl", b.rtl_src>> : b \in DeviceBenches(configs)} \cup
    {<<"rtl_testbench", "preinception", b.testbench_src>> : b \in DeviceBenches(configs)}

Extern(clone) ==
    CASE clone = "recursive" -> {<<"extern", t, "CMakeLists.txt">> : t \in Tools \cup {"nlohmann-json"}}
      [] clone = "plain"     -> {<<"extern", t>> : t \in Tools \cup {"nlohmann-json"}}
      [] clone = "emptied"   -> {<<"extern">>}

-----------------------------------------------------------------------------
(* utils.py                                                                *)

build_driver      == <<"/", "build", "driver", "matrix">>
verification_dir  == <<"/", "build", "verification">>
libmatrix         == build_driver \o <<"libmatrix.so">>
execution(name)   == <<"execution_dir", name>>

\* A bug in CopyDriver: a file is left in the working directory.
CopyDriverBeside(c) ==
    <<expect_file(libmatrix), copy(libmatrix, execution("libmatrix.so")),
      copy(config_file(c), <<"hw_config.json">>)>>

\* get_driver_lib, and the copies the setups have in common.
CopyDriver(c) ==
    <<expect_file(libmatrix), copy(libmatrix, execution("libmatrix.so")),
      copy(config_file(c), execution("hw_config.json"))>>

\* execute and presm_execute
execute(on, executable) ==
    <<chdir(<<"execution_dir">>), application(on, {<<executable>>}), chdir(<<"/">>)>>

-----------------------------------------------------------------------------
(* build.py                                                                *)

baud_rate(c) == IF Config(c).type \in {"functional", "serial"} THEN {"baud_rate"} ELSE {}

build_presm(c, clean) ==
    <<Has(c, {"device_clk_hz", "log_enabled", "debug", "memory_size_in_bytes"})>>
    \o (IF clean THEN <<rmtree(<<"build">>)>> ELSE <<>>)
    \o <<make_missing(<<"build">>), chdir(<<"build">>), Has(c, baud_rate(c)),
         command({<<<<"CMakeCache.txt">>, <<"..", "hw_configs", c>>>>,
                  <<<<"..", "device", "include", "g_config_device.h">>, <<"..", "hw_configs", c>>>>},
                 {<<"..", "CMakeLists.txt">>, <<"..", "extern", "nlohmann-json", "CMakeLists.txt">>}),
         command({<<<<"driver", "matrix", "libmatrix.so">>, <<"CMakeCache.txt">>>>,
                  <<<<"verification", "verification">>, <<"CMakeCache.txt">>>>}, {}),
         command({<<<<"..", "packages", "matrix", "lib", "libmatrix.so">>,
                    <<"driver", "matrix", "libmatrix.so">>>>}, {})>>

submodules == [op |-> "submodules"]

MakeTool(executable) ==
    <<rmtree(<<"build">>), mkdir(<<"build">>), chdir(<<"build">>),
      command({<<<<"CMakeCache.txt">>, <<"..", "CMakeLists.txt">>>>}, {}),
      command({<<<<executable>>, <<"CMakeCache.txt">>>>}, {})>>

build_fpga_toolchain ==
    <<submodules,
      chdir(<<"extern", "yosys">>), rmtree(<<"build">>),
      command({<<<<"build", "CMakeCache.txt">>, <<"CMakeLists.txt">>>>}, {}),
      command({<<<<"build", "yosys">>, <<"build", "CMakeCache.txt">>>>}, {}),
      chdir(<<"..", "nextpnr">>)>>
    \o MakeTool("nextpnr-himbaechel")
    \o <<chdir(<<"..", "..", "openFPGALoader">>)>>
    \o MakeTool("openFPGALoader")
    \o <<chdir(<<"..", "..", "..">>)>>

\* Packages of the system: nothing the model has.
install_ubuntu_packages == <<command({}, {}), command({}, {}), system({}, {}), system({}, {})>>

build(c, clean, get_extern_tools) ==
    (IF get_extern_tools THEN install_ubuntu_packages \o build_fpga_toolchain ELSE <<>>)
    \o build_presm(c, clean)

-----------------------------------------------------------------------------
(* verify.py                                                               *)

verdict(app) == [op |-> "verdict", app |-> app]

setup_verify(c) == <<copy_files(verification_dir, <<"execution_dir">>)>> \o CopyDriver(c)

Verify(c, app) ==
    IF ~app.enabled THEN <<>>
    ELSE <<numbered(<<"verify_runs">>)>> \o setup_verify(c) \o execute("device", "verification")
         \o (IF app.verify THEN execute("host", "verification") \o <<verdict(app.name)>> ELSE <<>>)

verify(c) ==
    <<Has(c, {"verification"})>>
    \o FlattenSeq([i \in 1 .. Len(Config(c).verification) |-> Verify(c, Config(c).verification[i])])

\* A bug in verify_output: a short output of the device is no difference.
verify_output_common(source, target) ==
    \A i \in 1 .. Len(target) : i <= Len(source) => target[i] = source[i]

\* Character by character, as long as the target goes; running out of the
\* source is an exception, which is a difference.
verify_output(source, target) ==
    \A i \in 1 .. Len(target) : i <= Len(source) /\ target[i] = source[i]

-----------------------------------------------------------------------------
(* execute.py, fpga_load.py                                                *)

execute_py(c) ==
    <<numbered(<<"execute_runs">>), copytree(<<"app">>, <<"execution_dir">>)>>
    \o CopyDriver(c) \o execute("device", "program")

tool(name, executable) == <<"/", "extern", name, "build", executable>>

check_external_tools == [op |-> "check_external_tools"]

setup_fpga(c) ==
    <<mkdir(execution("rtl")), copytree(<<"fpga", "tangnano20k">>, <<"execution_dir">>),
      copytree(<<"device", "rtl">>, execution("rtl")),
      copytree(<<"device", Config(c).device, "rtl">>, execution("rtl"))>>

fpga_load(c) ==
    <<Has(c, {"fpga", "rtl", "debug"}), check_external_tools, numbered(<<"fpga_load_runs">>)>>
    \o setup_fpga(c)
    \o <<chdir(<<"execution_dir">>),
         system({<<<<"Tangnano20kUart.fs">>, <<"rtl", "tangnano20k_serial.v">>>>,
                 <<<<"make.log">>, <<"Makefile">>>>},
                {tool("yosys", "yosys"), tool("nextpnr", "nextpnr-himbaechel"),
                 tool("openFPGALoader", "openFPGALoader")})>>

-----------------------------------------------------------------------------
(* rtl_testbench_run.py, tiny_tapeout/tt_ihp_export.py                     *)

\* device/rtl, the RTL of the device if one is named, and a test.
device_rtl(c, dst) ==
    <<copytree(<<"device", "rtl">>, dst)>>
    \o (IF Config(c).device = "" THEN <<>>
        ELSE <<copytree(<<"device", Config(c).device, "rtl">>, dst)>>)

testbench_dir(c, testbench) ==
    <<"rtl_testbench">> \o (IF Config(c).device = "" THEN <<>> ELSE <<Config(c).device>>)
    \o <<testbench.testbench_src>>

setup_testbench(c, testbench) ==
    <<try, copy(<<"rtl_testbench", "Makefile">>, execution("Makefile"))>>
    \o device_rtl(c, <<"execution_dir">>)
    \o <<copy(testbench_dir(c, testbench), execution(testbench.testbench_src)), except>>

make_testbench(testbench) ==
    system({<<<<"results.xml">>, <<testbench.testbench_src>>>>},
           {<<"Makefile">>, <<testbench.rtl_src>>})

Testbench(c, testbench) ==
    IF ~testbench.enable THEN <<>>
    ELSE <<numbered(<<"rtl_testbench_runs">>)>> \o setup_testbench(c, testbench)
         \o <<chdir(<<"execution_dir">>), make_testbench(testbench), chdir(<<"..", "..">>)>>

rtl_testbench_run(c) ==
    <<Has(c, {"rtl_testbench", "rtl_testbench_config", "debug"})>>
    \o FlattenSeq([i \in 1 .. Len(Config(c).rtl_testbench) |->
                       Testbench(c, Config(c).rtl_testbench[i])])

\* Of the tests, only the first.
exported(c) == Head(Config(c).rtl_testbench)

tt_ihp_export(c) ==
    <<Has(c, {"rtl_testbench"})>>
    \o (IF "rtl_testbench" \in Config(c).missing THEN <<>>
        ELSE <<try>> \o device_rtl(c, <<"tapeout", "src">>)
             \o <<copy(testbench_dir(c, exported(c)), <<"tapeout", "test", "test.py">>),
                  except>>)
=============================================================================
