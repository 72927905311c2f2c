---------------------------- MODULE ScriptShell ----------------------------
(***************************************************************************)
(* What the Python scripts are made of (scripts/utils.py and the calls of  *)
(* os, shutil and subprocess around it): a tree of files, a working        *)
(* directory, and a script of which todo is left, one record per           *)
(* statement.  A path is a sequence of names, relative to the working      *)
(* directory; "/" at its head stands for the root of the repository and    *)
(* "execution_dir" for the directory of the current run.  What a file      *)
(* contains is what it was made from.  A statement that raises an          *)
(* exception, as Control-C makes any of them do, goes on after the bare    *)
(* "except:" of its try block, or ends the script.  Copying and deleting   *)
(* may fail, or be interrupted, halfway.                                   *)
(***************************************************************************)
EXTENDS Naturals, Sequences, FiniteSets, SequencesExt

CONSTANTS
    RunNames,   \* sequence of names of numbered directories
    Outputs     \* what an application may print, sequences of characters

VARIABLES
    files,          \* what is in each file; DIR for a directory
    cwd,            \* absolute
    execution_dir,  \* as the script has it: relative to where it was made
    todo,
    status,         \* "idle", "running", "ok" or "failed"
    complained,     \* the directories of runs in which an error has been printed
    printed,        \* what the last applications printed
    mishaps         \* bound: interruptions and failing copies that may still come

shellVars == <<files, cwd, execution_dir, todo, status, complained, printed, mishaps>>

DIR     == "a directory"
PARTIAL == "the beginning of a file"

\* Where a path leads.
Resolve(path) ==
    LET start == CASE path # <<>> /\ path[1] = "/"             -> <<>>
                   [] path # <<>> /\ path[1] = "execution_dir" -> cwd \o execution_dir
                   [] OTHER                                    -> cwd
        names == SelectSeq(path, LAMBDA n : n \notin {"/", "execution_dir"})
    IN  FoldLeft(LAMBDA at, n : IF n = ".." THEN Front(at) ELSE Append(at, n), start, names)

Below(dir)     == {p \in DOMAIN files : IsPrefix(dir, p) /\ p # dir}
exists(at)     == at = <<>> \/ at \in DOMAIN files \/ Below(at) # {}
isfile(at)     == at \in DOMAIN files /\ files[at] # DIR
Rebase(p, from, to) == to \o SubSeq(p, Len(from) + 1, Len(p))

\* The files with some more or newer ones.
With(new) == [p \in DOMAIN new \cup DOMAIN files |->
                IF p \in DOMAIN new THEN new[p] ELSE files[p]]
NewDir(at) == [p \in {at} |-> DIR]

-----------------------------------------------------------------------------
(* How a script goes on.                                                   *)

Doing(op) == status = "running" /\ todo # <<>> /\ todo[1].op = op
Step == todo[1]

Done == todo' = Tail(todo) /\ UNCHANGED <<status, complained>>

Exit(s) == status' = s /\ todo' = <<>>

Complain == complained' = complained \cup {execution_dir}

\* A bug in Raise: the handler passes over the exception without a word.
RaiseUnsaid ==
    LET marks == {i \in 1 .. Len(todo) : todo[i].op \in {"try", "except"}}
        next  == CHOOSE i \in marks : \A j \in marks : i <= j
    IN  IF marks = {} \/ todo[next].op = "try" THEN Complain /\ Exit("failed")
        ELSE todo' = SubSeq(todo, next + 1, Len(todo)) /\ UNCHANGED <<status, complained>>

\* In a try block, the next of the two marks is its end.
Raise ==
    LET marks == {i \in 1 .. Len(todo) : todo[i].op \in {"try", "except"}}
        next  == CHOOSE i \in marks : \A j \in marks : i <= j
    IN  /\ Complain
        /\ IF marks = {} \/ todo[next].op = "try" THEN Exit("failed")
           ELSE todo' = SubSeq(todo, next + 1, Len(todo)) /\ UNCHANGED status

\* A statement that makes files, if it can.
Makes(can, new) ==
    /\ IF can THEN files' = With(new) /\ Done
       ELSE Raise /\ UNCHANGED files
    /\ UNCHANGED <<cwd, execution_dir, printed, mishaps>>

\* An exception that is nobody's fault: Control-C, a full disk.
Mishap == mishaps > 0 /\ mishaps' = mishaps - 1 /\ Raise

\* Some of the files are copied, one of them perhaps not to its end.
CopyFails(new) ==
    /\ \E some \in SUBSET DOMAIN new :
       \E cut \in {{}} \cup {{p} : p \in some} :
           files' = With([p \in some |-> IF p \in cut THEN PARTIAL ELSE new[p]])
    /\ Mishap
    /\ UNCHANGED <<cwd, execution_dir, printed>>

Copies(can, new) ==
    \/ Makes(can, new)
    \/ can /\ CopyFails(new)

-----------------------------------------------------------------------------
(* Statements.                                                             *)

chdir(path)           == [op |-> "chdir", path |-> path]
mkdir(path)           == [op |-> "mkdir", path |-> path]
make_missing(path)    == [op |-> "make_missing", path |-> path]
rmtree(path)          == [op |-> "rmtree", path |-> path]
copy(src, dst)        == [op |-> "copy", src |-> src, dst |-> dst]
copytree(src, dst)    == [op |-> "copytree", src |-> src, dst |-> dst]
copy_files(src, dst)  == [op |-> "copy_files", src |-> src, dst |-> dst]
require(present)      == [op |-> "require", present |-> present]
expect_file(path)     == [op |-> "expect_file", path |-> path]
numbered(parent)      == [op |-> "numbered", parent |-> parent]
init                  == [op |-> "init"]
try                   == [op |-> "try"]
except                == [op |-> "except"]

\* A program that makes the file out from the file in, for each <<out, in>>.
command(makes, needs) == [op |-> "command", makes |-> makes, needs |-> needs]
system(makes, needs)  == [op |-> "system", makes |-> makes, needs |-> needs]

\* An application, on the device or on the host.
application(on, needs) == [op |-> "application", on |-> on, needs |-> needs]

\* Started in scripts/, a script goes up.
Initialise ==
    /\ Doing("init")
    /\ cwd' = IF cwd # <<>> /\ Last(cwd) = "scripts" THEN Front(cwd) ELSE cwd
    /\ Done
    /\ UNCHANGED <<files, execution_dir, printed, mishaps>>

ChangeDirectory ==
    /\ Doing("chdir")
    /\ IF exists(Resolve(Step.path)) THEN cwd' = Resolve(Step.path) /\ Done
       ELSE Raise /\ UNCHANGED cwd
    /\ UNCHANGED <<files, execution_dir, printed, mishaps>>

MakeDirectory ==
    /\ Doing("mkdir")
    /\ LET at == Resolve(Step.path)
       IN  Makes(~exists(at) /\ exists(Front(at)), NewDir(at))

\* if not exists: mkdir
MakeMissing ==
    /\ Doing("make_missing")
    /\ LET at == Resolve(Step.path)
       IN  Makes(TRUE, IF exists(at) THEN <<>> ELSE NewDir(at))

\* if exists: rmtree
RemoveTree ==
    /\ Doing("rmtree")
    /\ LET at == Resolve(Step.path)
           gone == (Below(at) \cup {at}) \cap DOMAIN files
       IN  \E some \in SUBSET gone :
              /\ files' = [p \in DOMAIN files \ some |-> files[p]]
              /\ (some = gone /\ Done /\ UNCHANGED mishaps) \/ Mishap
    /\ UNCHANGED <<cwd, execution_dir, printed>>

CopyFile ==
    /\ Doing("copy")
    /\ LET src == Resolve(Step.src)  dst == Resolve(Step.dst)
       IN  Copies(isfile(src) /\ exists(Front(dst)),
                  [p \in {dst} |-> files[src]])

\* The target, and the directories above it, are made when they are missing.
CopyTree ==
    /\ Doing("copytree")
    /\ LET src == Resolve(Step.src)  dst == Resolve(Step.dst)
       IN  Copies(exists(src),
                  [p \in {Rebase(q, src, dst) : q \in Below(src)} |->
                      files[Rebase(p, dst, src)]])

\* Only the files of the directory itself.
CopyFiles ==
    /\ Doing("copy_files")
    /\ LET src  == Resolve(Step.src)  dst == Resolve(Step.dst)
           here == {p \in Below(src) : Len(p) = Len(src) + 1 /\ isfile(p)}
       IN  Copies(exists(src) /\ (here # {} => exists(dst)),
                  [p \in {Rebase(q, src, dst) : q \in here} |-> files[Rebase(p, dst, src)]])

\* Keys that are looked up in the configuration.
Require ==
    /\ Doing("require")
    /\ Makes(Step.present, <<>>)

\* open, and os.path.isfile with an error_exit.
ExpectFile ==
    /\ Doing("expect_file")
    /\ Makes(isfile(Resolve(Step.path)), <<>>)

\* A bug in NextRun: the last directory again.
LastRun(parent) ==
    LET used == {i \in 1 .. Len(RunNames) : exists(Append(parent, RunNames[i]))}
    IN  CHOOSE i \in 1 .. Len(RunNames) : (\A j \in used : j <= i) /\ (i > 1 => i \in used)

\* The first number that is higher than all there are.
NextRun(parent) ==
    LET used == {i \in 1 .. Len(RunNames) : exists(Append(parent, RunNames[i]))}
    IN  CHOOSE i \in 1 .. Len(RunNames) + 1 :
            /\ \A j \in used : j < i
            /\ i > 1 => i - 1 \in used

MakeNumberedExecutionDir ==
    /\ Doing("numbered")
    /\ LET parent == Resolve(Step.parent)
           name   == RunNames[NextRun(parent)]
       IN  /\ files' = With([p \in {parent, Append(parent, name)} |-> DIR])
           /\ execution_dir' = Append(Step.parent, name)
    /\ Done
    /\ UNCHANGED <<cwd, printed, mishaps>>

\* What a program makes that has the files it needs.
Ready == /\ \A n \in Step.needs : isfile(Resolve(n))
         /\ \A m \in Step.makes : isfile(Resolve(m[2]))
Made(makes) == [p \in {Resolve(m[1]) : m \in makes} |->
                   files[Resolve((CHOOSE m \in makes : Resolve(m[1]) = p)[2])]]

\* A program that fails may have made some of its files.
Some(makes) == {m \in SUBSET makes : Ready \/ m = {}}

\* A bug in Command: the return code is not looked at.
CommandUnchecked ==
    /\ Doing("command")
    /\ \E made \in Some(Step.makes) : files' = With(Made(made))
    /\ Done
    /\ UNCHANGED <<cwd, execution_dir, printed, mishaps>>

Command ==
    /\ Doing("command")
    /\ \E made \in Some(Step.makes) :
        /\ files' = With(Made(made))
        /\ \/ Ready /\ made = Step.makes /\ Done
           \/ Complain /\ Exit("failed")
    /\ UNCHANGED <<cwd, execution_dir, printed, mishaps>>

\* os.system: nobody looks at the result, and Control-C ends the program only.
System ==
    /\ Doing("system")
    /\ \E made \in Some(Step.makes) : files' = With(Made(made))
    /\ Done
    /\ UNCHANGED <<cwd, execution_dir, printed, mishaps>>

Application ==
    /\ Doing("application")
    /\ \/ /\ \A n \in Step.needs : isfile(Resolve(n))
          /\ \E out \in Outputs : printed' = [printed EXCEPT ![Step.on] = out]
          /\ Done
       \/ Complain /\ Exit("failed") /\ UNCHANGED printed
    /\ UNCHANGED <<files, cwd, execution_dir, mishaps>>

\* The marks of a try block in which nothing has been raised.
Mark ==
    /\ Doing("try") \/ Doing("except")
    /\ Done
    /\ UNCHANGED <<files, cwd, execution_dir, printed, mishaps>>

End ==
    /\ status = "running" /\ todo = <<>>
    /\ Exit("ok")
    /\ UNCHANGED <<files, cwd, execution_dir, complained, printed, mishaps>>

\* Control-C between two statements: KeyboardInterrupt is an exception.
Kill ==
    /\ status = "running" /\ todo # <<>>
    /\ Mishap
    /\ UNCHANGED <<files, cwd, execution_dir, printed>>

Statement ==
    \/ Initialise \/ ChangeDirectory \/ MakeDirectory \/ MakeMissing \/ RemoveTree
    \/ CopyFile \/ CopyTree \/ CopyFiles \/ Require \/ ExpectFile
    \/ MakeNumberedExecutionDir \/ Command \/ System \/ Application \/ Mark \/ End \/ Kill
=============================================================================
