---------------------------- MODULE PresmScripts ----------------------------
(***************************************************************************)
(* A user who runs one script after the other (ScriptPrograms) in a clone  *)
(* of the repository.  Any program a script starts and any copy may fail,  *)
(* and the user may press Control-C at any statement; what was made so far *)
(* stays.                                                                  *)
(***************************************************************************)
EXTENDS ScriptPrograms

\* Users, each [scripts, configs, clones, calls, mishaps]: the names of the
\* scripts she runs, of the configurations she gives them, how she may have
\* cloned the repository, and bounds on the scripts she runs and on the
\* interruptions and failing copies in them.
CONSTANT Users

VARIABLES
    user,
    call,       \* the script that runs, or ran last, and its arguments
    calls,
    built,      \* history: the configuration of the last build, if it was good
    tools,      \* history: the tools have been built, and the last time well
    verified    \* history: <<application, printed>> that verify.py has passed

vars == <<shellVars, user, call, calls, built, tools, verified>>

Calls ==
    {[name |-> s, config |-> c, clean |-> FALSE, get_extern_tools |-> FALSE] :
        s \in user.scripts \ {"toolchain"}, c \in user.configs}
    \cup {[name |-> "build", config |-> c, clean |-> TRUE, get_extern_tools |-> FALSE] :
        c \in IF "build" \in user.scripts THEN user.configs ELSE {}}
    \cup {[name |-> "build", config |-> c, clean |-> FALSE, get_extern_tools |-> TRUE] :
        c \in IF "toolchain" \in user.scripts THEN user.configs ELSE {}}

Main(k) ==
    CASE k.name = "build"             -> build(k.config, k.clean, k.get_extern_tools)
      [] k.name = "verify"            -> verify(k.config)
      [] k.name = "execute"           -> execute_py(k.config)
      [] k.name = "fpga_load"         -> fpga_load(k.config)
      [] k.name = "rtl_testbench_run" -> rtl_testbench_run(k.config)
      [] k.name = "tt_ihp_export"     -> tt_ihp_export(k.config)

GetsTools(k) == k.name = "build" /\ k.get_extern_tools

Silent == [device |-> <<>>, host |-> <<>>]

Init ==
    /\ user \in Users
    /\ \E clone \in user.clones :
        files = [p \in Repository(user.configs) \cup Extern(clone) |->
                    IF clone # "recursive" /\ p \in Extern(clone) THEN DIR
                    ELSE IF p[1] = "hw_configs" THEN p[2] ELSE Last(p)]
    /\ cwd = <<>> /\ execution_dir = <<>> /\ todo = <<>> /\ status = "idle"
    /\ complained = {} /\ printed = Silent
    /\ mishaps = user.mishaps
    /\ call = [name |-> "none"] /\ calls = 0
    /\ built = "none" /\ tools = FALSE /\ verified = {}

\* python scripts/... --config hw_configs/..., from the root or from scripts/;
\* tt_ihp_export.py finds its modules from the root only.
Call ==
    /\ status # "running"
    /\ calls < user.calls
    /\ calls' = calls + 1
    /\ \E k \in Calls :
        /\ call' = k
        /\ todo' = <<init, expect_file(config_file(k.config))>> \o Main(k)
        /\ cwd' \in {<<>>} \cup (IF k.name = "tt_ihp_export" THEN {} ELSE {<<"scripts">>})
        /\ built' = IF k.name = "build" THEN "none" ELSE built
        /\ tools' = (tools /\ ~GetsTools(k))
    /\ status' = "running" /\ complained' = {} /\ execution_dir' = <<>>
    /\ printed' = Silent /\ verified' = {}
    /\ UNCHANGED <<files, user, mishaps>>

\* build.py looks for submodules: without, it says so and ends well.
Submodules ==
    /\ Doing("submodules")
    /\ IF Below(<<"extern">>) = {} THEN Complain /\ Exit("ok") ELSE Done
    /\ UNCHANGED <<files, cwd, execution_dir, printed, mishaps>>

\* fpga_load.py looks for the tools.
CheckExternalTools ==
    /\ Doing("check_external_tools")
    /\ Makes(/\ exists(<<"extern", "yosys">>)
             /\ exists(<<"extern", "nextpnr", "build">>)
             /\ exists(<<"extern", "openFPGALoader", "build">>), <<>>)

\* verify.py compares.
Verdict ==
    /\ Doing("verdict")
    /\ IF verify_output(printed.device, printed.host)
       THEN Done /\ verified' = verified \cup {<<Step.app, printed>>}
       ELSE Complain /\ Exit("failed") /\ UNCHANGED verified
    /\ UNCHANGED <<files, cwd, execution_dir, printed, mishaps>>

Run ==
    /\ Statement \/ Submodules \/ CheckExternalTools
    /\ LET good == status' = "ok" /\ complained' = {}
       IN  /\ built' = IF call.name = "build" /\ good THEN call.config ELSE built
           /\ tools' = (tools \/ (GetsTools(call) /\ good))
    /\ UNCHANGED <<user, call, calls, verified>>

Next == Call \/ Run \/ (Verdict /\ UNCHANGED <<user, call, calls, built, tools>>)

Spec == Init /\ [][Next]_vars

-----------------------------------------------------------------------------
(* Properties.                                                             *)

\* What the program of this statement reads.
Reads == Step.needs \cup (IF Doing("system") THEN {m[2] : m \in Step.makes} ELSE {})

\* A build that ends well has built, for its own configuration and whatever an
\* earlier or broken-off build has left, the driver, the verification program
\* and the installed package (build.py:48-51).
BuildOkMeansBuilt ==
    call.name = "build" /\ status = "ok" /\ complained = {}
    => \A p \in {<<"build", "driver", "matrix", "libmatrix.so">>,
                 <<"build", "verification", "verification">>,
                 <<"packages", "matrix", "lib", "libmatrix.so">>} :
           p \in DOMAIN files /\ files[p] = call.config

\* An application runs in a directory of its own beside a driver and a
\* configuration that belong together, if the last build was for that
\* configuration and good (verify.py:15-24, execute.py:4-13).
RunsWhatWasBuilt ==
    Doing("application") /\ built = call.config
    => \A n \in {"libmatrix.so", "hw_config.json"} :
           LET p == Append(execution_dir, n)
           IN  cwd = execution_dir /\ p \in DOMAIN files /\ files[p] = call.config

\* When verify.py ends well, every application that is to be verified has run
\* twice and the device has printed all that the host has (verify.py:40-67).
VerifyOkMeansVerified ==
    call.name = "verify" /\ status = "ok"
    => LET apps == Config(call.config).verification
       IN  \A i \in 1 .. Len(apps) : apps[i].enabled /\ apps[i].verify
           => \E v \in verified : v[1] = apps[i].name /\ IsPrefix(v[2].host, v[2].device)

\* A simulation, a synthesis and an application are started in the directory
\* of their own run: no loop of a script and no exception has left the script
\* elsewhere.  Unless an error has been printed for this very run, all that
\* they read is there and whole, the tools of a synthesis too if they have last
\* been built well (rtl_testbench_run.py:18, 58-72; fpga_load.py:15-21).
ProgramsFindTheirFiles ==
    Doing("application") \/ (Doing("system") /\ call.name # "build")
    => /\ cwd = execution_dir
       /\ \/ execution_dir \in complained
          \/ \A n \in Reads : (n[1] # "/" \/ tools) =>
                 isfile(Resolve(n)) /\ files[Resolve(n)] # PARTIAL

\* An export that reports no error has exported the whole RTL of the device,
\* the top that goes to tapeout in it, and the first test of the configuration,
\* which is the top's, whatever an earlier export has left: that of another
\* device, half of its files, or the beginning of one (tt_ihp_export.py:19-37).
ExportsTheTop ==
    call.name = "tt_ihp_export" /\ status = "ok" /\ complained = {}
    => LET c    == Config(call.config)
           top  == Head(c.rtl_testbench)
           rtl  == {p \in DOMAIN files : Front(p) \in
                       {<<"device", "rtl">>, <<"device", c.device, "rtl">>}}
           in_src(f) == <<"tapeout", "src", f>>
           test == <<"tapeout", "test", "test.py">>
       IN  /\ top.rtl_src \in {Last(p) : p \in rtl}
           /\ \A p \in rtl : in_src(Last(p)) \in DOMAIN files
                              /\ files[in_src(Last(p))] = files[p]
           /\ test \in DOMAIN files /\ files[test] = top.testbench_src

Scratch(p) ==
    \/ \E i \in 1 .. Len(p) : p[i] \in {"build", "packages", "g_config_device.h"}
    \/ p[1] \in {"verify_runs", "execute_runs", "fpga_load_runs", "rtl_testbench_runs", "tapeout"}

\* No script writes, replaces or deletes anything but what .gitignore names,
\* wherever it is started and whichever of its steps fails.
SourcesUntouched ==
    [][\A p \in DOMAIN files \cup DOMAIN files' : Scratch(p)
        \/ (p \in DOMAIN files /\ p \in DOMAIN files' /\ files'[p] = files[p])]_vars

\* The directory of a run is new, and what earlier runs have left is kept.
FinishedRunsKept ==
    [][/\ execution_dir' \notin {execution_dir, <<>>} => ~exists(execution_dir')
       /\ \A p \in DOMAIN files :
            p[1] \in {"verify_runs", "execute_runs", "fpga_load_runs", "rtl_testbench_runs"}
            /\ ~IsPrefix(execution_dir', p)
            => p \in DOMAIN files' /\ files'[p] = files[p]]_vars

=============================================================================
