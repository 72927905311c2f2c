--------------------------- MODULE ExecutionDirs ---------------------------
(***************************************************************************)
(* The numbered directories of the runs (make_numbered_execution_dir of    *)
(* scripts/utils.py).  Scripts may be started in several shells; each call *)
(* of the operating system is a step.  A directory is represented by its   *)
(* number; its name is the number in digits, filled up with zeros.         *)
(***************************************************************************)
EXTENDS Integers, FiniteSets, TLAPS

CONSTANTS
    Shells,     \* where a script may run
    Base,       \* of the digits, 10 in the code
    Width,      \* of a name, 5 in the code
    MaxRuns,    \* bound on the scripts started
    CleansUp    \* the user deletes directories of finished runs

ASSUME ExecutionDirsAssumption ==
    /\ Base \in Nat \ {0, 1}
    /\ Width \in Nat \ {0}
    /\ MaxRuns \in Nat
    /\ CleansUp \in BOOLEAN

VARIABLES
    path_exists,    \* the parent directory is there
    dirs,           \* the numbers of the directories in it
    pc, max_num,    \* of each shell
    final_path,     \* of each shell: the directory it made
    started,
    overlapped      \* history, of each shell: another was at it meanwhile

vars == <<path_exists, dirs, pc, max_num, final_path, started, overlapped>>

TypeOK ==
    /\ path_exists \in BOOLEAN
    /\ dirs \subseteq Nat
    /\ pc \in [Shells -> {"idle", "exists", "mkdir", "listdir", "number", "running", "failed"}]
    /\ max_num \in [Shells -> Int]
    /\ final_path \in [Shells -> Int]
    /\ started \in Nat
    /\ overlapped \in [Shells -> BOOLEAN]

Init ==
    /\ path_exists = FALSE /\ dirs = {}
    /\ pc = [s \in Shells |-> "idle"]
    /\ max_num = [s \in Shells |-> -1] /\ final_path = [s \in Shells |-> -1]
    /\ started = 0
    /\ overlapped = [s \in Shells |-> FALSE]

-----------------------------------------------------------------------------
(* Names.                                                                  *)

\* Digits of the name of n: Width of them, or as many as n needs.
Size(n) == CHOOSE k \in Width .. Width + n :
             /\ n < Base^k
             /\ k > Width => n >= Base^(k - 1)

Name(n) == [i \in 1 .. Size(n) |-> (n \div Base^(Size(n) - i)) % Base]

\* The order of strings.
Before(m, n) ==
    LET a == Name(m)  b == Name(n)
    IN  \E i \in 1 .. Size(n) : /\ \A j \in 1 .. i - 1 : j <= Size(m) /\ a[j] = b[j]
                                /\ i > Size(m) \/ a[i] < b[i]

\* The last of the sorted names, as a number.
Highest == IF dirs = {} THEN -1
           ELSE CHOOSE n \in dirs : \A m \in dirs \ {n} : Before(m, n)

-----------------------------------------------------------------------------
(* make_numbered_execution_dir, called by the script in shell s.           *)

MakingDir(s) == pc[s] \in {"exists", "mkdir", "listdir", "number"}

Start(s) ==
    /\ pc[s] = "idle"
    /\ started < MaxRuns
    /\ started' = started + 1
    /\ pc' = [pc EXCEPT ![s] = "exists"]
    /\ overlapped' = [t \in Shells |-> IF t = s THEN \E u \in Shells \ {s} : MakingDir(u)
                                       ELSE overlapped[t] \/ MakingDir(t)]
    /\ UNCHANGED <<path_exists, dirs, max_num, final_path>>

LookForParent(s) ==
    /\ pc[s] = "exists"
    /\ pc' = [pc EXCEPT ![s] = IF path_exists THEN "listdir" ELSE "mkdir"]
    /\ UNCHANGED <<path_exists, dirs, max_num, final_path, started, overlapped>>

\* mkdir raises FileExistsError when another shell has come first.
MakeParent(s) ==
    /\ pc[s] = "mkdir"
    /\ path_exists' = TRUE
    /\ pc' = [pc EXCEPT ![s] = IF path_exists THEN "failed" ELSE "listdir"]
    /\ UNCHANGED <<dirs, max_num, final_path, started, overlapped>>

\* A bug in ListRuns: the names are not sorted.
ListRunsUnsorted(s) ==
    /\ pc[s] = "listdir"
    /\ \E n \in dirs \cup {-1} :
        /\ n = -1 => dirs = {}
        /\ max_num' = [max_num EXCEPT ![s] = n]
    /\ pc' = [pc EXCEPT ![s] = "number"]
    /\ UNCHANGED <<path_exists, dirs, final_path, started, overlapped>>

\* A bug in ListRuns: the directories are counted.
ListRunsCounted(s) ==
    /\ pc[s] = "listdir"
    /\ max_num' = [max_num EXCEPT ![s] = Cardinality(dirs) - 1]
    /\ pc' = [pc EXCEPT ![s] = "number"]
    /\ UNCHANGED <<path_exists, dirs, final_path, started, overlapped>>

ListRuns(s) ==
    /\ pc[s] = "listdir"
    /\ max_num' = [max_num EXCEPT ![s] = Highest]
    /\ pc' = [pc EXCEPT ![s] = "number"]
    /\ UNCHANGED <<path_exists, dirs, final_path, started, overlapped>>

\* A bug in MakeRun: makedirs(final_path, exist_ok=True).
MakeRunOrShare(s) ==
    /\ pc[s] = "number"
    /\ dirs' = dirs \cup {max_num[s] + 1}
    /\ final_path' = [final_path EXCEPT ![s] = max_num[s] + 1]
    /\ pc' = [pc EXCEPT ![s] = "running"]
    /\ UNCHANGED <<path_exists, max_num, started, overlapped>>

MakeRun(s) ==
    /\ pc[s] = "number"
    /\ IF max_num[s] + 1 \in dirs
       THEN /\ pc' = [pc EXCEPT ![s] = "failed"]
            /\ UNCHANGED <<dirs, final_path>>
       ELSE /\ dirs' = dirs \cup {max_num[s] + 1}
            /\ final_path' = [final_path EXCEPT ![s] = max_num[s] + 1]
            /\ pc' = [pc EXCEPT ![s] = "running"]
    /\ UNCHANGED <<path_exists, max_num, started, overlapped>>

\* The run ends, or the script has ended with an error.
End(s) ==
    /\ pc[s] \in {"running", "failed"}
    /\ pc' = [pc EXCEPT ![s] = "idle"]
    /\ UNCHANGED <<path_exists, dirs, max_num, final_path, started, overlapped>>

\* The user deletes the directory of a run that has ended.
CleanUp ==
    /\ CleansUp
    /\ \E n \in dirs :
        /\ \A s \in Shells : pc[s] = "running" => final_path[s] # n
        /\ dirs' = dirs \ {n}
    /\ UNCHANGED <<path_exists, pc, max_num, final_path, started, overlapped>>

Next ==
    \/ \E s \in Shells :
        \/ Start(s) \/ LookForParent(s) \/ MakeParent(s) \/ ListRuns(s) \/ MakeRun(s)
        \/ End(s)
    \/ CleanUp

Spec == Init /\ [][Next]_vars

-----------------------------------------------------------------------------
(* Properties.                                                             *)

\* No two scripts that run at the same time have the same directory, however
\* their looking and making interleave: they would overwrite each other's
\* libraries and configurations (utils.py:17-32).
NoSharedDirectory ==
    \A s, t \in Shells : s # t /\ pc[s] = "running" /\ pc[t] = "running"
                          => final_path[s] # final_path[t]

\* A script that no other overlaps gets its directory, also when the user has
\* deleted some: README.md:201 says there is one for each run.  (Of two that
\* overlap, one may end with FileExistsError.)  This is so as long as names have
\* the same length: the order of names is that of their numbers only then.
FailsOnlyWhenOverlapped ==
    [][\A s \in Shells : pc[s] # "failed" /\ pc'[s] = "failed" /\ ~overlapped[s]
        => \E n \in dirs : n >= Base^Width]_vars

\* The directory of such a script comes last in number, so that the directories
\* tell the order of the runs.
NumbersGrow ==
    [][\A s \in Shells :
        /\ pc[s] = "number" /\ pc'[s] = "running" /\ ~overlapped[s]
        /\ \A n \in dirs : n < Base^Width
        => \A n \in dirs : n < final_path'[s]]_vars

-----------------------------------------------------------------------------
(* For any number of shells, however long names are and whatever the user  *)
(* deletes: scripts that run at the same time have different directories.  *)
(* The argument needs no fact about the order of names or the highest      *)
(* number, which may be out of date when it is used; it rests on mkdir,    *)
(* which makes a directory for one caller only.                            *)

Running == {s \in Shells : pc[s] = "running"}

Functions ==
    /\ DOMAIN pc = Shells
    /\ DOMAIN final_path = Shells

\* A running script's directory exists, so mkdir gives it to nobody else and
\* the user does not delete it.
OwnDirectory == \A s \in Running : final_path[s] \in dirs

IInv == Functions /\ OwnDirectory /\ NoSharedDirectory

LEMMA InitIInv == Init => IInv
  BY DEF Init, IInv, Functions, OwnDirectory, NoSharedDirectory, Running

\* Only a shell that is not running, and does not come to run, moves.
LEMMA Elsewhere ==
    ASSUME IInv, NEW s \in Shells, NEW to, to # "running",
           pc' = [pc EXCEPT ![s] = to],
           UNCHANGED <<dirs, final_path>>
    PROVE  IInv'
  BY DEF IInv, Functions, OwnDirectory, NoSharedDirectory, Running

\* A new directory is nobody's.
LEMMA Owned ==
    ASSUME IInv, NEW s \in Shells, MakeRun(s)
    PROVE  IInv'
  <1>1. CASE max_num[s] + 1 \in dirs
    <2>1. pc' = [pc EXCEPT ![s] = "failed"] /\ UNCHANGED <<dirs, final_path>>
      BY <1>1 DEF MakeRun
    <2>. QED BY <2>1, Elsewhere
  <1>2. CASE max_num[s] + 1 \notin dirs
    <2>. DEFINE new == max_num[s] + 1
    <2>1. /\ dirs' = dirs \cup {new}
          /\ final_path' = [final_path EXCEPT ![s] = new]
          /\ pc' = [pc EXCEPT ![s] = "running"]
      BY <1>2 DEF MakeRun
    <2>2. Functions'
      BY <2>1 DEF IInv, Functions
    <2>3. \A t \in Running' : t # s => t \in Running /\ final_path'[t] = final_path[t]
      BY <2>1 DEF IInv, Functions, Running
    <2>4. final_path'[s] = new
      BY <2>1 DEF IInv, Functions
    <2>5. OwnDirectory'
      BY <2>1, <2>3, <2>4 DEF IInv, OwnDirectory
    <2>6. \A t \in Running : final_path[t] # new
      BY <1>2 DEF IInv, OwnDirectory
    <2>7. NoSharedDirectory'
      <3>1. SUFFICES ASSUME NEW t \in Running', NEW u \in Running', t # u
                     PROVE  final_path'[t] # final_path'[u]
        BY DEF NoSharedDirectory, Running
      <3>2. CASE t = s
        BY <2>3, <2>4, <2>6, <3>1, <3>2
      <3>3. CASE u = s
        BY <2>3, <2>4, <2>6, <3>1, <3>3
      <3>4. CASE t # s /\ u # s
        BY <2>3, <3>1, <3>4 DEF IInv, NoSharedDirectory, Running
      <3>. QED BY <3>2, <3>3, <3>4
    <2>. QED BY <2>2, <2>5, <2>7 DEF IInv
  <1>. QED BY <1>1, <1>2

\* The user deletes no directory of a script that runs.
LEMMA CleanUpKeeps == IInv /\ CleanUp => IInv'
  <1>. SUFFICES ASSUME IInv, CleanUp PROVE IInv'
    OBVIOUS
  <1>1. PICK n \in dirs : /\ \A s \in Shells : pc[s] = "running" => final_path[s] # n
                          /\ dirs' = dirs \ {n}
    BY DEF CleanUp
  <1>2. UNCHANGED <<pc, final_path>>
    BY DEF CleanUp
  <1>3. OwnDirectory'
    BY <1>1, <1>2 DEF IInv, OwnDirectory, Running
  <1>. QED BY <1>2, <1>3 DEF IInv, Functions, NoSharedDirectory

LEMMA StepIInv == IInv /\ [Next]_vars => IInv'
  <1>. SUFFICES ASSUME IInv, [Next]_vars PROVE IInv'
    OBVIOUS
  <1>1. ASSUME NEW s \in Shells, Start(s) PROVE IInv'
    BY <1>1, Elsewhere DEF Start
  <1>2. ASSUME NEW s \in Shells, LookForParent(s) PROVE IInv'
    <2>. DEFINE to == IF path_exists THEN "listdir" ELSE "mkdir"
    <2>1. to # "running" /\ pc' = [pc EXCEPT ![s] = to] /\ UNCHANGED <<dirs, final_path>>
      BY <1>2 DEF LookForParent
    <2>. HIDE DEF to
    <2>. QED BY <2>1, Elsewhere
  <1>3. ASSUME NEW s \in Shells, MakeParent(s) PROVE IInv'
    <2>. DEFINE to == IF path_exists THEN "failed" ELSE "listdir"
    <2>1. to # "running" /\ pc' = [pc EXCEPT ![s] = to] /\ UNCHANGED <<dirs, final_path>>
      BY <1>3 DEF MakeParent
    <2>. HIDE DEF to
    <2>. QED BY <2>1, Elsewhere
  <1>4. ASSUME NEW s \in Shells, ListRuns(s) PROVE IInv'
    BY <1>4, Elsewhere DEF ListRuns
  <1>5. ASSUME NEW s \in Shells, MakeRun(s) PROVE IInv'
    BY <1>5, Owned
  <1>6. ASSUME NEW s \in Shells, End(s) PROVE IInv'
    BY <1>6, Elsewhere DEF End
  <1>7. CASE UNCHANGED vars
    BY <1>7 DEF vars, IInv, Functions, OwnDirectory, NoSharedDirectory, Running
  <1>. QED BY <1>1, <1>2, <1>3, <1>4, <1>5, <1>6, <1>7, CleanUpKeeps DEF Next

\* No two scripts that run at the same time share a directory
\* (utils.py:17-32).
THEOREM RunsApart == Spec => []NoSharedDirectory
  <1>1. IInv => NoSharedDirectory
    BY DEF IInv
  <1>. QED BY <1>1, InitIInv, StepIInv, PTL DEF Spec
=============================================================================
